---- MODULE Spec2Model ----
(***************************************************************************)
(* Upload ingestion, quarantine, dedup-aware fact view and dimension alias *)
(* resolution of the analytics backend (backend/app).                      *)
(*                                                                         *)
(* Text values are sequences of characters (one-element strings).  A       *)
(* Cyrillic letter is written as "c" + its transliteration in lower case   *)
(* and "C" + transliteration in upper case ("cv" is the letter ve).  The   *)
(* non-breaking space is the character "NBSP".                             *)
(* Amounts are held in hundredths (Scale), so 10.50 is 1050.               *)
(* A NULL text column is the empty sequence: the import code stores        *)
(* `value or None`, so an empty string is never stored.  A NULL foreign    *)
(* key is 0 (ids start at 1).                                              *)
(***************************************************************************)
EXTENDS Integers, Sequences, FiniteSets, TLC

(***************************************************************************)
(* Bounds of the model.                                                    *)
(***************************************************************************)
MaxRows == 2          \* rows of an uploaded file
MaxImports == 2       \* import_upload calls in one behaviour
MaxSettingsUpdates == 1 \* update_project_settings calls in one behaviour
MaxProducts == 2      \* dimension entities per kind
MaxDimCalls == 3      \* dimension write calls in one behaviour

Scale == 100          \* hundredths per unit

None == [some |-> FALSE]
Some(v) == [some |-> TRUE, v |-> v]

(***************************************************************************)
(* Character helpers.                                                      *)
(***************************************************************************)
Digits == {"0", "1", "2", "3", "4", "5", "6", "7", "8", "9"}

DigitVal(c) ==
    CASE c = "0" -> 0 [] c = "1" -> 1 [] c = "2" -> 2 [] c = "3" -> 3
      [] c = "4" -> 4 [] c = "5" -> 5 [] c = "6" -> 6 [] c = "7" -> 7
      [] c = "8" -> 8 [] c = "9" -> 9 [] OTHER -> 0

\* <<lower, upper>> pairs of the letters the model's texts use
CasePairs ==
    { <<"a", "A">>, <<"d", "D">>, <<"e", "E">>, <<"f", "F">>, <<"l", "L">>,
      <<"n", "N">>, <<"o", "O">>, <<"p", "P">>, <<"r", "R">>, <<"s", "S">>,
      <<"t", "T">>, <<"u", "U">>, <<"x", "X">>,
      <<"cv", "Cv">>, <<"co", "Co">>, <<"cz", "Cz">>, <<"cr", "Cr">>,
      <<"ca", "Ca">>, <<"ct", "Ct">>, <<"cp", "Cp">>, <<"cl", "Cl">> }

LowerChar(c) ==
    IF \E p \in CasePairs : p[2] = c
    THEN (CHOOSE p \in CasePairs : p[2] = c)[1]
    ELSE c

UpperChar(c) ==
    IF \E p \in CasePairs : p[1] = c
    THEN (CHOOSE p \in CasePairs : p[1] = c)[2]
    ELSE c

IsSpace(c) == c \in {" ", "NBSP"}

\* str.lower() / str.upper()
Lower(s) == [i \in 1..Len(s) |-> LowerChar(s[i])]
Upper(s) == [i \in 1..Len(s) |-> UpperChar(s[i])]

\* str.strip(): drops leading and trailing whitespace
Strip(s) ==
    LET idx == {i \in 1..Len(s) : ~IsSpace(s[i])}
    IN  IF idx = {} THEN <<>>
        ELSE LET lo == CHOOSE i \in idx : \A j \in idx : i <= j
                 hi == CHOOSE i \in idx : \A j \in idx : i >= j
             IN  SubSeq(s, lo, hi)

\* `sub in s`
Contains(s, sub) ==
    \E i \in 1..(Len(s) - Len(sub) + 1) : SubSeq(s, i, i + Len(sub) - 1) = sub

\* value[:max_length]
_truncate_string(value, max_length) ==
    IF Len(value) <= max_length THEN value ELSE SubSeq(value, 1, max_length)

(***************************************************************************)
(* services/upload_pipeline.py: value normalization and parsing.           *)
(***************************************************************************)
NoRules == [trim |-> FALSE, lowercase |-> FALSE, uppercase |-> FALSE]

normalize_value(value, rules) ==
    LET t == IF rules.trim THEN Strip(value) ELSE value
        l == IF rules.lowercase THEN Lower(t) ELSE t
        u == IF rules.uppercase THEN Upper(l) ELSE l
    IN  u

\* digits of a sequence of digit characters
RECURSIVE DigitsToInt(_)
DigitsToInt(s) ==
    IF s = <<>> THEN 0
    ELSE DigitsToInt(SubSeq(s, 1, Len(s) - 1)) * 10 + DigitVal(s[Len(s)])

\* float(cleaned) for a text over digits, "." and "-": an optional leading
\* minus, digits with at most one point, at least one digit; the value in
\* hundredths, the fraction cut after two digits
FloatOf(cleaned) ==
    LET neg == cleaned # <<>> /\ cleaned[1] = "-"
        body == IF neg THEN Tail(cleaned) ELSE cleaned
        points == {i \in 1..Len(body) : body[i] = "."}
        wellFormed == /\ \A i \in 1..Len(body) : body[i] \in Digits \cup {"."}
                      /\ Cardinality(points) <= 1
                      /\ \E i \in 1..Len(body) : body[i] \in Digits
        p == IF points = {} THEN Len(body) + 1 ELSE CHOOSE i \in points : TRUE
        intPart == SubSeq(body, 1, p - 1)
        fracRaw == SubSeq(body, p + 1, Len(body))
        frac2 == SubSeq(fracRaw \o <<"0", "0">>, 1, 2)
        mag == DigitsToInt(intPart) * Scale + DigitsToInt(frac2)
    IN  IF wellFormed THEN Some(IF neg THEN 0 - mag ELSE mag) ELSE None

parse_float(value) ==
    IF value = <<>> THEN None
    ELSE LET spaced == [i \in 1..Len(value) |->
                           IF value[i] = "NBSP" THEN " " ELSE value[i]]
             stripped == Strip(spaced)
             nospace == SelectSeq(stripped, LAMBDA c : c # " ")
             cleaned == SelectSeq(nospace,
                           LAMBDA c : c \in Digits \cup {",", ".", "-"})
             hasBoth == (\E i \in 1..Len(cleaned) : cleaned[i] = ",")
                        /\ (\E i \in 1..Len(cleaned) : cleaned[i] = ".")
             final == IF hasBoth
                      THEN SelectSeq(cleaned, LAMBDA c : c # ",")
                      ELSE [i \in 1..Len(cleaned) |->
                               IF cleaned[i] = "," THEN "." ELSE cleaned[i]]
         IN  FloatOf(final)


LeapYear(y) == y % 4 = 0 /\ (y % 100 # 0 \/ y % 400 = 0)

DaysInMonth(y, m) ==
    IF m = 2 THEN (IF LeapYear(y) THEN 29 ELSE 28)
    ELSE IF m \in {4, 6, 9, 11} THEN 30 ELSE 31

\* The date-only entries of DATE_FORMATS (and ISO YYYY-MM-DD): three digit
\* groups split by one of "-", ".", "/" used twice, year (4 digits) first
\* or last, month and day of 1 or 2 digits.  A date is the number
\* year * 10000 + month * 100 + day.  Texts with a time part are not among
\* the model's cells.
parse_date(value) ==
    LET AllDigits(p) == p # <<>> /\ \A i \in 1..Len(p) : p[i] \in Digits
        Date(y, m, d) ==
            IF y >= 1 /\ m \in 1..12 /\ d \in 1..DaysInMonth(y, m)
            THEN Some(y * 10000 + m * 100 + d)
            ELSE None
        Groups(a, b, c) ==
            IF ~(AllDigits(a) /\ AllDigits(b) /\ AllDigits(c)) THEN None
            ELSE IF Len(a) = 4 /\ Len(b) \in {1, 2} /\ Len(c) \in {1, 2}
            THEN Date(DigitsToInt(a), DigitsToInt(b), DigitsToInt(c))
            ELSE IF Len(c) = 4 /\ Len(b) \in {1, 2} /\ Len(a) \in {1, 2}
            THEN Date(DigitsToInt(c), DigitsToInt(b), DigitsToInt(a))
            ELSE None
        Cut(cleaned, s1, s2) ==
            IF cleaned[s1] # cleaned[s2] THEN None
            ELSE Groups(SubSeq(cleaned, 1, s1 - 1),
                        SubSeq(cleaned, s1 + 1, s2 - 1),
                        SubSeq(cleaned, s2 + 1, Len(cleaned)))
        Split(cleaned, seps) ==
            IF Cardinality(seps) # 2 THEN None
            ELSE Cut(cleaned,
                     CHOOSE i \in seps : \A j \in seps : i <= j,
                     CHOOSE i \in seps : \A j \in seps : i >= j)
        Parse(cleaned) ==
            Split(cleaned,
                  {i \in 1..Len(cleaned) : cleaned[i] \in {"-", ".", "/"}})
    IN  IF value = <<>> THEN None ELSE Parse(Strip(value))

\* one entry per (header, field) pair of the "mapping" dict, in dict order;
\* the field "" stands for null
extract_mapping(mapping_json) == mapping_json.mapping

extract_operation_type_mapping(mapping_json) ==
    mapping_json.value_mapping.operation_type

\* faulty variant: the stored policy is not read
extract_unknown_operation_policy_default(mapping_json) == "error"

extract_unknown_operation_policy(mapping_json) ==
    IF mapping_json.unknown_operation_policy \notin {"error", "ignore"}
    THEN "error"
    ELSE mapping_json.unknown_operation_policy

\* field -> first header mapped to it ("" when the field is not mapped)
build_field_mapping(mapping_json, field) ==
    LET pairs == extract_mapping(mapping_json)
        hits == {i \in 1..Len(pairs) :
                    /\ pairs[i][2] = field
                    /\ pairs[i][2] \notin {"", "ignore", "not_set"}}
    IN  IF hits = {} THEN ""
        ELSE pairs[CHOOSE i \in hits : \A j \in hits : i <= j][1]

\* header_index.get(header): the last column carrying that header
get_row_value(row, headers, header) ==
    LET cols == {i \in 1..Len(headers) : headers[i] = header}
        index == IF cols = {} THEN 0
                 ELSE CHOOSE i \in cols : \A j \in cols : i >= j
    IN  IF index = 0 \/ index > Len(row) THEN <<>> ELSE row[index]

(***************************************************************************)
(* api/routes/mappings.py: quality report.                                 *)
(***************************************************************************)
SALE == <<"s", "a", "l", "e">>
REFUND == <<"r", "e", "f", "u", "n", "d">>

UploadTypes == {"transactions", "marketing_spend"}

REQUIRED_FIELDS(upload_type) ==
    IF upload_type = "transactions"
    THEN <<"paid_at", "operation_type", "amount">>
    ELSE <<"date", "spend_amount">>

optional_fields ==
    << "transaction_id", "order_id", "client_id", "product_name",
       "product_category", "manager", "payment_method",
       "group_1", "group_2", "group_3", "group_4", "group_5",
       "fee_1", "fee_2", "fee_3",
       "utm_source", "utm_medium", "utm_campaign", "utm_term", "utm_content" >>

sale_markers ==
    { <<"co", "cp", "cl", "ca", "ct", "ca">>,
      <<"cp", "cr", "ci", "ch", "co", "cd">>,
      <<"cp", "co", "cs", "ct", "cu", "cp", "cl", "ce", "cn", "ci", "ce">>,
      <<"cp", "co", "cp", "co", "cl", "cn", "ce", "cn", "ci", "ce">>,
      <<"cp", "cr", "ci", "cb", "cy", "cl", "cq">>,
      <<"cv", "cy", "cp", "cl", "ca", "ct", "ca">>,
      <<"co", "cp", "cl", "ca", "cch", "ce", "cn", "co">> }

refund_markers ==
    { <<"cv", "co", "cz", "cv", "cr", "ca", "ct">>,
      <<"cv", "co", "cz", "cv", "cr", "ca", "csch", "ce", "cn", "co">>,
      <<"co", "ct", "ck", "cl", "co", "cn", "ce", "cn", "co">>,
      <<"co", "ct", "cm", "ce", "cn", "ca">> }

_normalize_operation_value(value) == Lower(Strip(value))

\* faulty variant: the sale markers are looked for first
_infer_operation_sale_markers_first(value) ==
    LET normalized == Lower(Strip(value))
    IN  IF normalized = <<>> THEN <<>>
        ELSE IF \E marker \in sale_markers : Contains(normalized, marker)
             THEN SALE
        ELSE IF \E marker \in refund_markers : Contains(normalized, marker)
             THEN REFUND
        ELSE <<>>

\* <<>> when nothing is inferred
_infer_operation_from_payment_type(value) ==
    LET normalized == Lower(Strip(value))
    IN  IF normalized = <<>> THEN <<>>
        ELSE IF \E marker \in refund_markers : Contains(normalized, marker)
             THEN REFUND
        ELSE IF \E marker \in sale_markers : Contains(normalized, marker)
             THEN SALE
        ELSE <<>>

\* (value, invalid)
_parse_fee_value(raw_value) ==
    LET parsed == parse_float(raw_value)
    IN  IF ~parsed.some
        THEN (IF Strip(raw_value) = <<>>
              THEN [value |-> 0, invalid |-> FALSE]
              ELSE [value |-> 0, invalid |-> TRUE])
        ELSE [value |-> parsed.v, invalid |-> FALSE]

Issue(level, row, field, message) ==
    [level |-> level, row |-> row, field |-> field, message |-> message]

\* row_payload.get(field, {}).get(key, "")
PayloadGet(row_payload, field, key) ==
    IF field \in DOMAIN row_payload THEN row_payload[field][key] ELSE <<>>

NormalizationOf(normalization, header) ==
    IF header \in DOMAIN normalization THEN normalization[header] ELSE NoRules

\* the row_payload entry of one field
PayloadEntry(row, headers, mapping_json, normalization, field) ==
    LET header == build_field_mapping(mapping_json, field)
        raw_value == IF header # "" THEN get_row_value(row, headers, header)
                     ELSE <<>>
    IN  [raw |-> raw_value,
         normalized |-> normalize_value(raw_value,
                                        NormalizationOf(normalization, header)),
         header |-> header]

SeqToSet(s) == {s[i] : i \in 1..Len(s)}

\* the payload of a row: every required field, and for transactions every
\* mapped optional field
RowPayload(upload_type, row, headers, mapping_json, normalization) ==
    LET required == SeqToSet(REQUIRED_FIELDS(upload_type))
        optional == IF upload_type = "transactions"
                    THEN {f \in SeqToSet(optional_fields) :
                             build_field_mapping(mapping_json, f) # ""}
                    ELSE {}
    IN  [f \in required \cup optional |->
            PayloadEntry(row, headers, mapping_json, normalization, f)]

\* dict.get(key): the mapped value, <<>> when the key is absent
OperationMappingGet(operation_type_mapping, key) ==
    IF key \in DOMAIN operation_type_mapping
    THEN operation_type_mapping[key]
    ELSE <<>>

\* steps (a)-(d) of the operation type resolution; <<>> when unresolved
ResolveOperation(row_payload, operation_type_mapping) ==
    LET operation_value ==
            _normalize_operation_value(
                PayloadGet(row_payload, "operation_type", "normalized"))
        mapped_value == OperationMappingGet(operation_type_mapping,
                                            operation_value)
        from_operation ==
            IF operation_value = <<>> THEN <<>>
            ELSE IF mapped_value # <<>> THEN mapped_value
            ELSE IF operation_value \in {SALE, REFUND} THEN operation_value
            ELSE _infer_operation_from_payment_type(operation_value)
    IN  IF from_operation # <<>> THEN from_operation
        ELSE _infer_operation_from_payment_type(
                 PayloadGet(row_payload, "payment_method", "normalized"))

\* transaction_id if present else order_id (normalized values)
TransactionKey(row_payload) ==
    IF PayloadGet(row_payload, "transaction_id", "normalized") # <<>>
    THEN PayloadGet(row_payload, "transaction_id", "normalized")
    ELSE PayloadGet(row_payload, "order_id", "normalized")

\* issues of the required-field loop, in field order
RequiredIssues(upload_type, row_payload, row_index) ==
    LET required == REQUIRED_FIELDS(upload_type)
        Miss(i) == row_payload[required[i]].normalized = <<>>
        One(i) == IF Miss(i)
                  THEN <<Issue("error", row_index, required[i], "required")>>
                  ELSE <<>>
    IN  IF Len(required) = 3 THEN One(1) \o One(2) \o One(3)
        ELSE One(1) \o One(2)

\* faulty variant: the sign of the amount is kept
AbsoluteAmountSigned(amount_value) == amount_value

\* the amount a row carries on: a negative amount is replaced by its modulus
AbsoluteAmount(amount_value) ==
    IF amount_value < 0 THEN 0 - amount_value ELSE amount_value

\* faulty variant: the skip mark forgets the rows skipped by policy
RowExcludedErrorsOnly(row_has_error, row_skip) == row_has_error

\* the "skip" mark of a processed row: the row is kept out of the ready set
RowExcluded(row_has_error, row_skip) == row_has_error \/ row_skip

\* parsed_payload.get(key): 0 stands for None (<<>> for the operation type)
ParsedGet(parsed_payload, key) ==
    IF key \in DOMAIN parsed_payload THEN parsed_payload[key]
    ELSE IF key = "operation_type" THEN <<>> ELSE 0

\* One pass of the row loop for a transactions upload.
TransactionRow(row_payload, row_index, operation_type_mapping, unknown_operation_policy, seen_transactions) ==
    LET key_field == IF "transaction_id" \in DOMAIN row_payload
                     THEN "transaction_id" ELSE "order_id"
        Fee(f) == _parse_fee_value(PayloadGet(row_payload, f, "raw"))
        FeeIssue(f, fee) == IF fee.invalid
                            THEN <<Issue("warning", row_index, f, "fee")>>
                            ELSE <<>>
        Entry(row_issues, row_has_error, row_skip, full, fees) ==
            [row_index |-> row_index, payload |-> row_payload,
             parsed |-> IF ~row_has_error /\ ~row_skip THEN full ELSE fees,
             skip |-> RowExcluded(row_has_error, row_skip),
             issues |-> row_issues]
        Checked(transaction_key, row_issues, row_skip, full, fees) ==
            [entry |-> Entry(row_issues,
                             \E i \in 1..Len(row_issues) :
                                 row_issues[i].level = "error",
                             row_skip, full, fees),
             has_error |-> \E i \in 1..Len(row_issues) :
                              row_issues[i].level = "error",
             row_skip |-> row_skip,
             seen |-> IF transaction_key # <<>>
                      THEN seen_transactions \cup {transaction_key}
                      ELSE seen_transactions]
        Parsed(transaction_key, date_value, amount_parsed, resolved_operation, fee_1, fee_2, fee_3) ==
            LET duplicate == transaction_key # <<>>
                             /\ transaction_key \in seen_transactions
                dup_issues ==
                    IF duplicate
                    THEN <<Issue("warning", row_index, key_field, "duplicate")>>
                    ELSE <<>>
                date_issues ==
                    IF ~date_value.some
                    THEN <<Issue("error", row_index, "paid_at", "date")>>
                    ELSE <<>>
                amount_bad == ~amount_parsed.some \/ amount_parsed.v = 0
                amount_issues ==
                    IF amount_bad
                    THEN <<Issue("error", row_index, "amount", "amount")>>
                    ELSE IF amount_parsed.v < 0
                    THEN <<Issue("warning", row_index, "amount", "negative")>>
                    ELSE <<>>
                amount_value == IF amount_bad THEN 0
                                ELSE AbsoluteAmount(amount_parsed.v)
                unresolved == resolved_operation = <<>>
                operation_issues ==
                    IF ~unresolved THEN <<>>
                    ELSE IF unknown_operation_policy = "ignore"
                    THEN <<Issue("warning", row_index, "operation_type",
                                 "operation_skipped")>>
                    ELSE <<Issue("error", row_index, "operation_type",
                                 "operation_invalid")>>
                fee_issues == FeeIssue("fee_1", fee_1) \o FeeIssue("fee_2", fee_2)
                              \o FeeIssue("fee_3", fee_3)
            IN  Checked(transaction_key,
                        RequiredIssues("transactions", row_payload, row_index)
                            \o dup_issues \o date_issues \o amount_issues
                            \o operation_issues \o fee_issues,
                        unresolved /\ unknown_operation_policy = "ignore",
                        [fee_1 |-> fee_1.value, fee_2 |-> fee_2.value,
                         fee_3 |-> fee_3.value, paid_at |-> date_value.v,
                         amount |-> amount_value,
                         operation_type |-> resolved_operation,
                         fee_total |-> fee_1.value + fee_2.value + fee_3.value],
                        [fee_1 |-> fee_1.value, fee_2 |-> fee_2.value,
                         fee_3 |-> fee_3.value])
    IN  Parsed(TransactionKey(row_payload),
               parse_date(PayloadGet(row_payload, "paid_at", "raw")),
               parse_float(PayloadGet(row_payload, "amount", "raw")),
               ResolveOperation(row_payload, operation_type_mapping),
               Fee("fee_1"), Fee("fee_2"), Fee("fee_3"))

\* One pass of the row loop for a marketing_spend upload.
SpendRow(row_payload, row_index, seen_transactions) ==
    LET Checked(row_issues, parsed_payload) ==
            [entry |-> [row_index |-> row_index, payload |-> row_payload,
                        parsed |-> IF row_issues = <<>> THEN parsed_payload
                                   ELSE <<>>,
                        skip |-> RowExcluded(row_issues # <<>>, FALSE),
                        issues |-> row_issues],
             has_error |-> row_issues # <<>>,
             row_skip |-> FALSE,
             seen |-> seen_transactions]
        Parsed(date_value, spend_value) ==
            LET date_issues ==
                    IF ~date_value.some
                    THEN <<Issue("error", row_index, "date", "date")>>
                    ELSE <<>>
                spend_issues ==
                    IF ~spend_value.some \/ spend_value.v <= 0
                    THEN <<Issue("error", row_index, "spend_amount", "amount")>>
                    ELSE <<>>
            IN  Checked(RequiredIssues("marketing_spend", row_payload,
                                       row_index)
                            \o date_issues \o spend_issues,
                        [date |-> date_value.v,
                         spend_amount |-> spend_value.v])
    IN  Parsed(parse_date(PayloadGet(row_payload, "date", "raw")),
               parse_float(PayloadGet(row_payload, "spend_amount", "raw")))

\* the row loop: rows n+1..Len(rows) after `acc` holds the rows before
RECURSIVE QualityLoop(_, _, _, _, _)
QualityLoop(upload_type, file, mapping, n, acc) ==
    LET row_index == n + 1
        Of(issues, level) == SelectSeq(issues, LAMBDA i : i.level = level)
        Row(row_payload) ==
            IF upload_type = "transactions"
            THEN TransactionRow(
                     row_payload, row_index,
                     extract_operation_type_mapping(mapping.mapping_json),
                     extract_unknown_operation_policy(mapping.mapping_json),
                     acc.seen_transactions)
            ELSE SpendRow(row_payload, row_index, acc.seen_transactions)
        After(r) ==
            [errors |-> acc.errors \o Of(r.entry.issues, "error"),
             warnings |-> acc.warnings \o Of(r.entry.issues, "warning"),
             rows_with_errors |->
                 IF r.has_error
                 THEN acc.rows_with_errors \cup {row_index}
                 ELSE acc.rows_with_errors,
             skipped_rows |->
                 IF r.row_skip /\ ~r.has_error
                 THEN acc.skipped_rows + 1 ELSE acc.skipped_rows,
             processed_rows |-> Append(acc.processed_rows, r.entry),
             seen_transactions |-> r.seen]
    IN  IF n > Len(file.rows) THEN acc
        ELSE QualityLoop(upload_type, file, mapping, n + 1,
                 After(Row(RowPayload(upload_type, file.rows[n], file.headers,
                                      mapping.mapping_json,
                                      mapping.normalization_json))))

\* faulty variant: valid_rows subtracts the number of errors, not of rows
\* with an error
_build_quality_report_by_issue(upload_type, file, mapping) ==
    LET Built(acc) ==
            [report |->
                [errors |-> acc.errors,
                 warnings |-> acc.warnings,
                 stats |->
                    [total_rows |-> Len(file.rows),
                     valid_rows |-> Len(file.rows) - Len(acc.errors)
                                    - acc.skipped_rows,
                     error_count |-> Len(acc.errors),
                     warning_count |-> Len(acc.warnings),
                     skipped_rows |-> acc.skipped_rows]],
             processed_rows |-> acc.processed_rows]
    IN  Built(QualityLoop(upload_type, file, mapping, 1,
                  [errors |-> <<>>, warnings |-> <<>>,
                   rows_with_errors |-> {}, skipped_rows |-> 0,
                   processed_rows |-> <<>>, seen_transactions |-> {}]))

\* (report, processed_rows)
_build_quality_report(upload_type, file, mapping) ==
    LET Built(acc) ==
            [report |->
                [errors |-> acc.errors,
                 warnings |-> acc.warnings,
                 stats |->
                    [total_rows |-> Len(file.rows),
                     valid_rows |-> Len(file.rows)
                                    - Cardinality(acc.rows_with_errors)
                                    - acc.skipped_rows,
                     error_count |-> Len(acc.errors),
                     warning_count |-> Len(acc.warnings),
                     skipped_rows |-> acc.skipped_rows]],
             processed_rows |-> acc.processed_rows]
    IN  Built(QualityLoop(upload_type, file, mapping, 1,
                  [errors |-> <<>>, warnings |-> <<>>,
                   rows_with_errors |-> {}, skipped_rows |-> 0,
                   processed_rows |-> <<>>, seen_transactions |-> {}]))


(***************************************************************************)
(* Inputs of the model: cells, files and request payloads.                 *)
(***************************************************************************)
D_ISO == <<"2", "0", "2", "4", "-", "0", "1", "-", "0", "1">>
D_RU == <<"0", "2", ".", "0", "1", ".", "2", "0", "2", "4">>
D_BAD == <<"2", "0", "2", "4", "-", "1", "3", "-", "0", "1">>
A_100 == <<"1", "0", "0">>
A_NEG == <<"-", "1", "0">>
A_ZERO == <<"0">>
A_TXT == <<"a", "b", "c">>
A_RUB == <<"1", "NBSP", "5", "0", "0", ",", "5", "0", " ", "R">>
OP_SALE == <<"s", "a", "l", "e">>
OP_REFUND == <<"R", "e", "f", "u", "n", "d">>
OP_X == <<"x", "y", "z">>
OP_BLANK == <<" ">>
OP_BOTH == <<"Co", "cp", "cl", "ca", "ct", "ca", " ", "cv", "co", "cz", "cv", "cr", "ca", "ct">>
PAY_SALE == <<"co", "cp", "cl", "ca", "ct", "ca">>
TX_1 == <<"T", "1">>
ORDER_1 == <<"O", "1">>
NAME_A == <<"A">>
NAME_a == <<"a">>
NAME_B == <<"B">>
NAME_M == <<"M">>
FEE_5 == <<"5">>
FEE_X == <<"x">>
EMPTY == <<>>

HEADERS_TX ==
    << "h_tx", "h_order", "h_date", "h_op", "h_amount", "h_pay",
       "h_product", "h_manager", "h_fee" >>

HEADERS_SPEND == << "h_date", "h_spend" >>

\* rows of transaction files (cells in the order of HEADERS_TX)
SampleRows ==
    { << TX_1, ORDER_1, D_ISO, OP_SALE, A_100, EMPTY, NAME_a, NAME_M, FEE_5 >>,
      << TX_1, EMPTY, D_RU, OP_REFUND, A_NEG, EMPTY, NAME_A, EMPTY, EMPTY >>,
      << EMPTY, ORDER_1, D_ISO, OP_X, A_RUB, PAY_SALE, NAME_B, EMPTY, FEE_X >>,
      << EMPTY, EMPTY, D_ISO, OP_X, A_100, EMPTY, EMPTY, EMPTY, EMPTY >>,
      << TX_1, EMPTY, D_ISO, OP_X, A_NEG, EMPTY, NAME_a, EMPTY, EMPTY >>,
      << EMPTY, EMPTY, D_BAD, OP_BLANK, A_ZERO, EMPTY, EMPTY, EMPTY, EMPTY >>,
      << EMPTY, ORDER_1, D_ISO, OP_BOTH, A_TXT, EMPTY, EMPTY, EMPTY, EMPTY >>,
      << TX_1 >> }

\* rows of marketing-spend files (cells in the order of HEADERS_SPEND)
SampleSpendRows ==
    { << D_ISO, A_100 >>, << D_BAD, A_100 >>, << D_RU, A_NEG >> }

RECURSIVE SeqsUpTo(_, _)
SeqsUpTo(S, n) ==
    IF n = 0 THEN {<<>>}
    ELSE LET shorter == SeqsUpTo(S, n - 1)
         IN  shorter \cup {Append(q, e) : q \in shorter, e \in S}

\* rows that carry a dedup key and pass validation: the leading rows of a
\* file of several rows
KeyedRows == {r \in SampleRows : Len(r) > 1 /\ r[1] # <<>> /\ r[4] # OP_X}

\* files of at most n rows: any sample row after at most n - 1 keyed rows
FilesOf(leading, rows, n) ==
    {<<>>} \cup {Append(q, e) : q \in SeqsUpTo(leading, n - 1), e \in rows}

Files(upload_type) ==
    IF upload_type = "transactions"
    THEN {[headers |-> HEADERS_TX, rows |-> r] :
             r \in FilesOf(KeyedRows, SampleRows, MaxRows)}
    ELSE {[headers |-> HEADERS_SPEND, rows |-> r] :
             r \in FilesOf(SampleSpendRows, SampleSpendRows, MaxRows)}

FullMapping ==
    << <<"h_tx", "transaction_id">>, <<"h_order", "order_id">>,
       <<"h_date", "paid_at">>, <<"h_op", "operation_type">>,
       <<"h_amount", "amount">>, <<"h_pay", "payment_method">>,
       <<"h_product", "product_name">>, <<"h_manager", "manager">>,
       <<"h_fee", "fee_1">> >>

PartialMapping ==
    << <<"h_tx", "">>, <<"h_order", "order_id">>,
       <<"h_date", "paid_at">>, <<"h_op", "operation_type">>,
       <<"h_amount", "amount">>, <<"h_pay", "ignore">>,
       <<"h_product", "product_name">>, <<"h_manager", "product_name">>,
       <<"h_fee", "fee_2">> >>

NoAmountMapping ==
    << <<"h_date", "paid_at">>, <<"h_op", "operation_type">>,
       <<"h_amount", "">> >>

SpendMapping == << <<"h_date", "date">>, <<"h_spend", "spend_amount">> >>

TrimLower == [trim |-> TRUE, lowercase |-> TRUE, uppercase |-> FALSE]

\* request bodies of save_mapping (ColumnMappingCreate)
AllMappingPayloads ==
    { [mapping |-> FullMapping, normalization |-> <<>>,
       operation_type_mapping |-> <<>>, unknown_operation_policy |-> "error"],
      [mapping |-> FullMapping, normalization |-> <<>>,
       operation_type_mapping |-> <<>>, unknown_operation_policy |-> "ignore"],
      [mapping |-> PartialMapping,
       normalization |-> [h \in {"h_op", "h_product"} |-> TrimLower],
       operation_type_mapping |-> << << <<"X", "y", "z", " ">>, REFUND >> >>,
       unknown_operation_policy |-> "error"],
      [mapping |-> NoAmountMapping, normalization |-> <<>>,
       operation_type_mapping |-> <<>>, unknown_operation_policy |-> "error"],
      [mapping |-> FullMapping, normalization |-> <<>>,
       operation_type_mapping |-> <<>>, unknown_operation_policy |-> "skip"],
      [mapping |-> FullMapping, normalization |-> <<>>,
       operation_type_mapping |-> << << OP_X, <<"b", "u", "y">> >> >>,
       unknown_operation_policy |-> "ignore"],
      [mapping |-> SpendMapping, normalization |-> <<>>,
       operation_type_mapping |-> <<>>, unknown_operation_policy |-> "error"] }

\* values a client sends as dedup_policy (the schema takes any string)
DedupPolicies ==
    {"keep_all_rows", "last_row_wins", "aggregate_by_transaction_id",
     "aggregate_by_order_id"}

DimKinds == {"product", "manager"}


(***************************************************************************)
(* State: the tables of one project and its one upload.                    *)
(***************************************************************************)
VARIABLES
    upload,                 \* the Upload row, NoUpload before create_upload
    column_mapping,         \* the ColumnMapping row of the upload
    project_settings,       \* the ProjectSettings row of the project
    fact_transactions,      \* FactTransaction rows, in insertion (id) order
    fact_marketing_spend,   \* FactMarketingSpend rows, in insertion order
    upload_quarantine_rows, \* UploadQuarantineRow rows, in insertion order
    dims,                   \* kind -> DimProduct / DimManager rows (id = index)
    aliases,                \* kind -> DimProductAlias / DimManagerAlias rows
    insights,               \* Insight rows, in insertion order
    _metric_cache,          \* the process-wide cache of compute_metric
    response,               \* what the last handler returned; for validate and
                            \* import also what it worked on (its ready and
                            \* quarantine lists, the status it found)
    calls,                  \* number of calls made, per bounded handler
    uploads,                \* the Upload rows the dashboard-source and
                            \* deletion handlers work on (id = index)
    dashboard_sources,      \* data type -> upload_id of the
                            \* ProjectDashboardSource row (0 for NULL)
    alert_rules,            \* AlertRule rows of all projects (id = index)
    alert_events,           \* AlertEvent rows, in insertion (id) order
    telegram_bindings,      \* the projects that have a TelegramBinding row
    sessions                \* the database transactions in flight and the
                            \* order of their steps

vars == << upload, column_mapping, project_settings, fact_transactions,
           fact_marketing_spend, upload_quarantine_rows, dims, aliases,
           insights, _metric_cache, response, calls, uploads,
           dashboard_sources, alert_rules, alert_events, telegram_bindings,
           sessions >>

\* the tables a handler of another router leaves alone
OtherTablesUnchanged ==
    UNCHANGED << uploads, dashboard_sources, alert_rules, alert_events,
                 telegram_bindings, sessions >>

\* the tables of the alerts router, and the transactions in flight
AlertTablesUnchanged ==
    UNCHANGED << alert_rules, alert_events, telegram_bindings, sessions >>

\* no alert rule, no alert event and no chat bound
NoAlerts ==
    alert_rules = <<>> /\ alert_events = <<>> /\ telegram_bindings = {}

\* no upload row and no dashboard source row
NoSources == uploads = <<>> /\ dashboard_sources = <<>>

\* no transaction in flight: every handler of a behaviour runs alone
NoSessions ==
    [import |-> [pc |-> "idle"], alias |-> [pc |-> "idle"], log |-> <<>>]

NoUpload == [status |-> "none"]
NoMapping == [saved |-> FALSE]

Statuses == {"uploaded", "validated", "imported", "failed"}

(***************************************************************************)
(* api/routes/uploads.py                                                   *)
(***************************************************************************)
create_upload(upload_type, file) ==
    /\ upload = NoUpload
    /\ upload' = [status |-> "uploaded", type |-> upload_type, file |-> file]
    /\ uploads' = Append(uploads, [project_id |-> 1, type |-> upload_type,
                                  is_deleted |-> FALSE])
    /\ response' = [handler |-> "create_upload", status_code |-> 201]
    /\ UNCHANGED << column_mapping, project_settings, fact_transactions,
                    fact_marketing_spend, upload_quarantine_rows, dims,
                    aliases, insights, _metric_cache, calls,
                    dashboard_sources >>
    /\ AlertTablesUnchanged

(***************************************************************************)
(* api/routes/projects.py                                                  *)
(***************************************************************************)
update_project_settings(dedup_policy) ==
    /\ calls.settings < MaxSettingsUpdates
    /\ project_settings' = [project_settings EXCEPT !.dedup_policy = dedup_policy]
    /\ calls' = [calls EXCEPT !.settings = @ + 1]
    /\ response' = [handler |-> "update_project_settings", status_code |-> 200]
    /\ UNCHANGED << upload, column_mapping, fact_transactions,
                    fact_marketing_spend, upload_quarantine_rows, dims, aliases,
                    insights, _metric_cache >>
    /\ OtherTablesUnchanged

(***************************************************************************)
(* api/routes/mappings.py                                                  *)
(***************************************************************************)
\* the operation_mapping dict of save_mapping: normalized key -> value, empty
\* keys dropped, the last entry of a key winning
NormalizedOperationMapping(pairs) ==
    LET keys == {_normalize_operation_value(pairs[i][1]) : i \in 1..Len(pairs)}
                \ {<<>>}
        Last(k) == CHOOSE i \in 1..Len(pairs) :
                      /\ _normalize_operation_value(pairs[i][1]) = k
                      /\ \A j \in 1..Len(pairs) :
                            _normalize_operation_value(pairs[j][1]) = k => j <= i
    IN  [k \in keys |-> pairs[Last(k)][2]]

MissingRequired(upload_type, payload) ==
    LET selected_fields == {payload.mapping[i][2] : i \in 1..Len(payload.mapping)}
                           \ {""}
    IN  SelectSeq(REQUIRED_FIELDS(upload_type),
                  LAMBDA field : field \notin selected_fields)

\* faulty variant: policy and remap targets are not validated
SaveMappingCodeUnchecked(upload_type, payload) ==
    IF MissingRequired(upload_type, payload) # <<>> THEN 400 ELSE 201

\* the status code save_mapping answers with
SaveMappingCode(upload_type, payload) ==
    LET operation_mapping ==
            NormalizedOperationMapping(payload.operation_type_mapping)
    IN  IF MissingRequired(upload_type, payload) # <<>> THEN 400
        ELSE IF payload.unknown_operation_policy \notin {"error", "ignore"}
        THEN 422
        ELSE IF \E k \in DOMAIN operation_mapping :
                   operation_mapping[k] \notin {SALE, REFUND}
        THEN 422
        ELSE 201

\* the bodies that pass save_mapping for some upload type
MappingPayloads ==
    {p \in AllMappingPayloads :
        \E t \in UploadTypes : SaveMappingCode(t, p) = 201}

\* faulty variant: the mapping is written before the body is checked
save_mapping_unguarded(payload) ==
    /\ upload # NoUpload
    /\ response' = [handler |-> "save_mapping",
                    status_code |-> SaveMappingCode(upload.type, payload)]
    /\ column_mapping' =
          [saved |-> TRUE,
           mapping_json |->
             [mapping |-> payload.mapping,
              value_mapping |->
                [operation_type |->
                   NormalizedOperationMapping(payload.operation_type_mapping)],
              unknown_operation_policy |-> payload.unknown_operation_policy],
           normalization_json |-> payload.normalization]
    /\ UNCHANGED << upload, project_settings, fact_transactions,
                    fact_marketing_spend, upload_quarantine_rows, dims,
                    aliases, insights, _metric_cache, calls >>
    /\ OtherTablesUnchanged

save_mapping(payload) ==
    /\ upload # NoUpload
    /\ LET code == SaveMappingCode(upload.type, payload)
       IN  /\ response' = [handler |-> "save_mapping", status_code |-> code]
           /\ IF code = 201
              THEN column_mapping' =
                     [saved |-> TRUE,
                      mapping_json |->
                        [mapping |-> payload.mapping,
                         value_mapping |->
                           [operation_type |->
                              NormalizedOperationMapping(
                                  payload.operation_type_mapping)],
                         unknown_operation_policy |->
                           payload.unknown_operation_policy],
                      normalization_json |-> payload.normalization]
              ELSE UNCHANGED column_mapping
    /\ UNCHANGED << upload, project_settings, fact_transactions,
                    fact_marketing_spend, upload_quarantine_rows, dims,
                    aliases, insights, _metric_cache, calls >>
    /\ OtherTablesUnchanged

\* faulty variant: skipped rows fail the validation too
ValidatedStatusCountingSkips(report, status) ==
    IF report.errors = <<>> /\ report.stats.skipped_rows = 0
    THEN "validated" ELSE "failed"

\* faulty variant: a failed validation leaves the status as it was
ValidatedStatusKeepOnError(report, status) ==
    IF report.errors = <<>> THEN "validated" ELSE status

\* the status validate_upload stores
ValidatedStatus(report, status) ==
    IF report.errors = <<>> THEN "validated" ELSE "failed"

\* faulty variant: a failed upload stays failed
StatusAfterImportKeepsFailed(status) ==
    IF status = "failed" THEN "failed" ELSE "imported"

\* the status import_upload stores, whatever status it found
StatusAfterImport(status) == "imported"

validate_upload ==
    /\ upload # NoUpload
    /\ IF ~column_mapping.saved
       THEN /\ response' = [handler |-> "validate_upload", status_code |-> 400]
            /\ UNCHANGED upload
       ELSE \E report \in {_build_quality_report(upload.type, upload.file,
                                                   column_mapping).report} :
                /\ upload' = [upload EXCEPT !.status =
                                 ValidatedStatus(report, upload.status)]
                /\ response' = [handler |-> "validate_upload",
                                status_code |-> 200, report |-> report,
                                status_before |-> upload.status]
    /\ UNCHANGED << column_mapping, project_settings, fact_transactions,
                    fact_marketing_spend, upload_quarantine_rows, dims,
                    aliases, insights, _metric_cache, calls >>
    /\ OtherTablesUnchanged

\* dedup_key of import_upload; <<>> when the entry has no key
dedup_key(entry, use_order_id) ==
    LET transaction_id == PayloadGet(entry.payload, "transaction_id", "normalized")
    IN  IF transaction_id # <<>> THEN transaction_id
        ELSE IF use_order_id
             THEN PayloadGet(entry.payload, "order_id", "normalized")
             ELSE <<>>

\* keys of the entries in order of first appearance (dict insertion order)
RECURSIVE KeyOrder(_, _, _)
KeyOrder(rows, use_order_id, n) ==
    IF n = 0 THEN <<>>
    ELSE LET before == KeyOrder(rows, use_order_id, n - 1)
             key == dedup_key(rows[n], use_order_id)
         IN  IF key = <<>> \/ key \in SeqToSet(before) THEN before
             ELSE Append(before, key)

Passthrough(rows, use_order_id) ==
    SelectSeq(rows, LAMBDA e : dedup_key(e, use_order_id) = <<>>)

RECURSIVE SumField(_, _)
SumField(rows, field) ==
    IF rows = <<>> THEN 0
    ELSE ParsedGet(rows[1].parsed, field) + SumField(Tail(rows), field)

\* dedup_policy = last_row_wins: per key the last entry, at the place of the
\* key's first entry, after the entries without key
LastRowWins(ready_rows) ==
    LET keys == KeyOrder(ready_rows, TRUE, Len(ready_rows))
        Last(k) == CHOOSE i \in 1..Len(ready_rows) :
                      /\ dedup_key(ready_rows[i], TRUE) = k
                      /\ \A j \in 1..Len(ready_rows) :
                            dedup_key(ready_rows[j], TRUE) = k => j <= i
    IN  Passthrough(ready_rows, TRUE)
        \o [n \in 1..Len(keys) |-> ready_rows[Last(keys[n])]]

\* dedup_policy = aggregate_by_transaction_id: per transaction_id the first
\* entry, its amount and fees replaced by the sums over the key's entries
AggregateByTransactionId(ready_rows) ==
    LET keys == KeyOrder(ready_rows, FALSE, Len(ready_rows))
        Group(k) == SelectSeq(ready_rows, LAMBDA e : dedup_key(e, FALSE) = k)
        Merged(k) ==
            LET base == Group(k)[1]
            IN  IF Len(Group(k)) = 1 THEN base
                ELSE [base EXCEPT
                        !.parsed =
                            [f \in {"amount", "fee_1", "fee_2", "fee_3",
                                    "fee_total"} |-> SumField(Group(k), f)]
                            @@ base.parsed]
    IN  Passthrough(ready_rows, FALSE)
        \o [n \in 1..Len(keys) |-> Merged(keys[n])]

\* faulty variant: the last row of a key wins whatever the policy is
ApplyDedupPolicyLastRow(dedup_policy, ready_rows) == LastRowWins(ready_rows)

\* the rows import_upload persists, after the dedup policy
ApplyDedupPolicy(dedup_policy, ready_rows) ==
    IF dedup_policy = "last_row_wins" THEN LastRowWins(ready_rows)
    ELSE IF dedup_policy = "aggregate_by_transaction_id"
    THEN AggregateByTransactionId(ready_rows)
    ELSE ready_rows

(***************************************************************************)
(* services/aliases.py                                                     *)
(***************************************************************************)
\* the dimension id an alias text resolves to, 0 when there is none
resolve_alias(kind, alias) ==
    IF alias = <<>> THEN 0
    ELSE LET hits == {i \in 1..Len(aliases[kind]) :
                         aliases[kind][i].alias = alias}
         IN  IF hits = {} THEN 0
             ELSE aliases[kind][CHOOSE i \in hits : TRUE].dim_id

\* canonical_name of a dimension row
get_name(kind, dim_id) ==
    IF dim_id = 0 THEN <<>> ELSE dims[kind][dim_id].canonical_name

(***************************************************************************)
(* services/metrics.py and services/insights.py: what import_upload runs   *)
(* after its commit.  The metric_definitions table holds the default       *)
(* metrics (ensure_default_metrics seeds them on every lookup).            *)
(***************************************************************************)
INSIGHT_METRICS == <<"gross_sales", "refunds", "net_revenue", "orders">>

\* max(FactTransaction.date)
MaxOfDates(facts) ==
    CHOOSE d \in {facts[n].date : n \in 1..Len(facts)} :
        \A n \in 1..Len(facts) : facts[n].date <= d

\* sum(FactTransaction.amount) over the rows, 0 for no row
RECURSIVE SumAmounts(_, _)
SumAmounts(facts, rows) ==
    IF rows = {} THEN 0
    ELSE LET n == CHOOSE m \in rows : TRUE
         IN  facts[n].amount + SumAmounts(facts, rows \ {n})

\* date - timedelta(days=1)
PrevDay(d) ==
    LET y == d \div 10000
        m == (d \div 100) % 100
        day == d % 100
    IN  IF day > 1 THEN d - 1
        ELSE IF m > 1 THEN y * 10000 + (m - 1) * 100 + DaysInMonth(y, m - 1)
        ELSE (y - 1) * 10000 + 12 * 100 + 31

\* date - timedelta(days=n)
RECURSIVE MinusDays(_, _)
MinusDays(d, n) == IF n = 0 THEN d ELSE MinusDays(PrevDay(d), n - 1)

\* _latest_period: None when the project has no fact
_latest_period(facts, window_days) ==
    IF facts = <<>> THEN None
    ELSE LET period_to == MaxOfDates(facts)
             period_from == MinusDays(period_to, window_days - 1)
             previous_to == MinusDays(period_from, 1)
             previous_from == MinusDays(previous_to, window_days - 1)
         IN  Some([period_from |-> period_from, period_to |-> period_to,
                   previous_from |-> previous_from,
                   previous_to |-> previous_to])

\* _ensure_cache_key, for the one project and no filters
_ensure_cache_key(metric_key, from_date, to_date) ==
    << metric_key, from_date, to_date >>

\* the aggregate compute_metric reads from the fact table for a base metric
BaseMetricValue(facts, metric_key, from_date, to_date) ==
    LET operation == IF metric_key = "refunds" THEN REFUND ELSE SALE
        rows == {n \in 1..Len(facts) :
                    /\ facts[n].date >= from_date
                    /\ facts[n].date <= to_date
                    /\ facts[n].operation_type = operation}
        Key(n) == IF facts[n].transaction_id # <<>>
                  THEN facts[n].transaction_id ELSE facts[n].order_id
    IN  IF metric_key = "orders"
        THEN Cardinality({Key(n) : n \in rows} \ {<<>>})
        ELSE SumAmounts(facts, rows)

\* a quotient of two amounts, in thousandths (the fraction cut)
RatioScale == 1000
Ratio(numerator, denominator) == (numerator * RatioScale) \div denominator

\* compute_metric for the metrics of the insights and for refund_rate:
\* (value, cache after)
compute_metric(facts, cache, metric_key, from_date, to_date) ==
    LET cache_key == _ensure_cache_key(metric_key, from_date, to_date)
        Cached(c, k) == k \in DOMAIN c
        Put(c, k, v) == [x \in DOMAIN c \cup {k} |-> IF x = k THEN v ELSE c[x]]
        Base(c, key) ==
            LET k == _ensure_cache_key(key, from_date, to_date)
            IN  IF Cached(c, k) THEN [value |-> c[k], cache |-> c]
                ELSE LET v == BaseMetricValue(facts, key, from_date, to_date)
                     IN  [value |-> v, cache |-> Put(c, k, v)]
    IN  IF Cached(cache, cache_key)
        THEN [value |-> cache[cache_key], cache |-> cache]
        ELSE IF metric_key \in {"net_revenue", "refund_rate"}
        THEN LET gross_sales == Base(cache, "gross_sales")
                 refunds == Base(gross_sales.cache, "refunds")
                 value == IF metric_key = "net_revenue"
                          THEN gross_sales.value - refunds.value
                          ELSE IF gross_sales.value # 0
                          THEN Ratio(refunds.value, gross_sales.value)
                          ELSE 0
             IN  [value |-> value, cache |-> Put(refunds.cache, cache_key, value)]
        ELSE Base(cache, metric_key)

\* generate_insights_for_project(db, project_id) with the default window:
\* the Insight rows (metric, period, current and previous value) and the
\* cache after the call
RECURSIVE InsightLoop(_, _, _, _, _)
\* faulty variant: the insight is inserted without deleting the existing one
InsightLoopInsertOnly(facts, rows, cache, period, n) ==
    IF n > Len(INSIGHT_METRICS) THEN [insights |-> rows, cache |-> cache]
    ELSE LET metric_key == INSIGHT_METRICS[n]
             current == compute_metric(facts, cache, metric_key,
                                       period.period_from, period.period_to)
             previous == compute_metric(facts, current.cache, metric_key,
                                        period.previous_from,
                                        period.previous_to)
             insight == [metric_key |-> metric_key,
                         period_from |-> period.period_from,
                         period_to |-> period.period_to,
                         current |-> current.value,
                         previous |-> previous.value]
         IN  InsightLoop(facts, Append(rows, insight), previous.cache,
                         period, n + 1)

InsightLoop(facts, rows, cache, period, n) ==
    IF n > Len(INSIGHT_METRICS) THEN [insights |-> rows, cache |-> cache]
    ELSE LET metric_key == INSIGHT_METRICS[n]
             current == compute_metric(facts, cache, metric_key,
                                       period.period_from, period.period_to)
             previous == compute_metric(facts, current.cache, metric_key,
                                        period.previous_from,
                                        period.previous_to)
             kept == SelectSeq(rows,
                         LAMBDA r : ~(/\ r.metric_key = metric_key
                                      /\ r.period_from = period.period_from
                                      /\ r.period_to = period.period_to))
             insight == [metric_key |-> metric_key,
                         period_from |-> period.period_from,
                         period_to |-> period.period_to,
                         current |-> current.value,
                         previous |-> previous.value]
         IN  InsightLoop(facts, Append(kept, insight), previous.cache,
                         period, n + 1)

generate_insights_for_project(facts, rows, cache) ==
    LET period_data == _latest_period(facts, 7)
    IN  IF ~period_data.some THEN [insights |-> rows, cache |-> cache]
        ELSE InsightLoop(facts, rows, cache, period_data.v, 1)

\* the FactTransaction row import_upload builds from a ready entry
FactRecord(entry, id, mapping) ==
    LET row_payload == entry.payload
        parsed_payload == entry.parsed
        Header(field) == build_field_mapping(mapping.mapping_json, field)
        product_raw == PayloadGet(row_payload, "product_name", "raw")
        manager_raw == PayloadGet(row_payload, "manager", "raw")
        product_key == normalize_value(product_raw,
                           NormalizationOf(mapping.normalization_json,
                                           Header("product_name")))
        manager_key == normalize_value(manager_raw,
                           NormalizationOf(mapping.normalization_json,
                                           Header("manager")))
        product_id == resolve_alias("product", product_key)
        manager_id == resolve_alias("manager", manager_key)
        product_norm == IF product_id # 0 THEN get_name("product", product_id)
                        ELSE product_key
        manager_norm == IF manager_id # 0 THEN get_name("manager", manager_id)
                        ELSE manager_key
    IN  [id |-> id,
         transaction_id |->
             _truncate_string(
                 PayloadGet(row_payload, "transaction_id", "normalized"), 128),
         order_id |->
             _truncate_string(
                 PayloadGet(row_payload, "order_id", "normalized"), 128),
         date |-> ParsedGet(parsed_payload, "paid_at"),
         operation_type |->
             _truncate_string(ParsedGet(parsed_payload, "operation_type"), 32),
         amount |-> ParsedGet(parsed_payload, "amount"),
         product_name_raw |-> _truncate_string(product_raw, 255),
         product_name_norm |-> _truncate_string(product_norm, 255),
         product_id |-> product_id,
         manager_raw |-> _truncate_string(manager_raw, 255),
         manager_norm |-> _truncate_string(manager_norm, 255),
         manager_id |-> manager_id,
         payment_method |->
             _truncate_string(
                 PayloadGet(row_payload, "payment_method", "normalized"), 255),
         fee_1 |-> ParsedGet(parsed_payload, "fee_1"),
         fee_2 |-> ParsedGet(parsed_payload, "fee_2"),
         fee_3 |-> ParsedGet(parsed_payload, "fee_3"),
         fee_total |-> ParsedGet(parsed_payload, "fee_total"),
         created_at |-> id]

QuarantineRecord(entry) ==
    [row_number |-> entry.row_index,
     issues_json |-> entry.issues,
     payload_json |-> entry.payload]

\* where generate_insights_for_project raises inside import_upload: not at
\* all, before its first query, or at the commit that follows it
InsightFailures == {"none", "start", "commit"}

\* faulty variant: a failed generation leaves its pending rows in place
InsightsAfterImportNoRollback(facts, rows, cache, raising) ==
    LET generated == generate_insights_for_project(facts, rows, cache)
    IN  IF raising = "start" THEN [insights |-> rows, cache |-> cache]
        ELSE generated

\* the try block after the commit of import_upload: the Insight rows and the
\* metric cache after it.  db.rollback() discards the pending Insight rows;
\* the cache is a dict of the process and keeps what was computed.
InsightsAfterImport(facts, rows, cache, raising) ==
    LET generated == generate_insights_for_project(facts, rows, cache)
    IN  IF raising = "none" THEN generated
        ELSE IF raising = "start" THEN [insights |-> rows, cache |-> cache]
        ELSE [insights |-> rows, cache |-> generated.cache]

import_upload(raising) ==
    /\ upload # NoUpload
    /\ calls.imports < MaxImports
    /\ IF ~column_mapping.saved
       THEN /\ response' = [handler |-> "import_upload", status_code |-> 400]
            /\ UNCHANGED << upload, fact_transactions, fact_marketing_spend,
                            upload_quarantine_rows, insights, _metric_cache,
                            calls >>
       ELSE \E built \in {_build_quality_report(upload.type, upload.file,
                                                  column_mapping)} :
            \E quarantine_rows \in
                  {SelectSeq(built.processed_rows, LAMBDA e : e.skip)} :
            \E ready_rows \in
                  {SelectSeq(built.processed_rows, LAMBDA e : ~e.skip)} :
            \E persisted \in
                  {ApplyDedupPolicy(project_settings.dedup_policy, ready_rows)} :
            \E facts_after \in
                  {IF upload.type = "transactions"
                   THEN fact_transactions \o
                            [n \in 1..Len(persisted) |->
                                FactRecord(persisted[n],
                                           Len(fact_transactions) + n,
                                           column_mapping)]
                   ELSE fact_transactions} :
            \E generated \in
                  {InsightsAfterImport(facts_after, insights, _metric_cache,
                                       raising)} :
                /\ IF upload.type = "transactions"
                   THEN /\ fact_transactions' = facts_after
                        /\ UNCHANGED fact_marketing_spend
                   ELSE /\ fact_marketing_spend' = fact_marketing_spend \o
                              [n \in 1..Len(persisted) |->
                                  [date |-> ParsedGet(persisted[n].parsed, "date"),
                                   spend_amount |->
                                       ParsedGet(persisted[n].parsed,
                                                 "spend_amount")]]
                        /\ UNCHANGED fact_transactions
                /\ upload' = [upload EXCEPT !.status =
                                 StatusAfterImport(upload.status)]
                /\ upload_quarantine_rows' = upload_quarantine_rows \o
                       [n \in 1..Len(quarantine_rows) |->
                           QuarantineRecord(quarantine_rows[n])]
                /\ insights' = generated.insights
                /\ _metric_cache' = generated.cache
                /\ calls' = [calls EXCEPT !.imports = @ + 1]
                /\ response' = [handler |-> "import_upload",
                                status_code |-> 200,
                                imported |-> Len(persisted),
                                report |-> built.report,
                                ready_rows |-> ready_rows,
                                quarantine_rows |-> quarantine_rows,
                                dedup_policy |-> project_settings.dedup_policy,
                                status_before |-> upload.status]
    /\ UNCHANGED << column_mapping, project_settings, dims, aliases >>
    /\ OtherTablesUnchanged

(***************************************************************************)
(* api/routes/dimensions.py (products and managers share the code shape;   *)
(* `kind` selects DimProduct/DimProductAlias or DimManager/DimManagerAlias *)
(* and the product or manager columns of the facts).                       *)
(***************************************************************************)
FactNorm(fact, kind) ==
    IF kind = "product" THEN fact.product_name_norm ELSE fact.manager_norm

FactDimId(fact, kind) ==
    IF kind = "product" THEN fact.product_id ELSE fact.manager_id

SetFactDim(fact, kind, dim_id, name) ==
    IF kind = "product"
    THEN [fact EXCEPT !.product_id = dim_id, !.product_name_norm = name]
    ELSE [fact EXCEPT !.manager_id = dim_id, !.manager_norm = name]

\* faulty variant: the alias is inserted without looking for its row
AliasRowsAfterAlwaysInsert(rows, alias, dim_id) ==
    Append(rows, [id |-> Len(rows) + 1, alias |-> alias, dim_id |-> dim_id])

\* the alias rows after the upsert of _apply_product_alias
AliasRowsAfter(rows, alias, dim_id) ==
    IF \E i \in 1..Len(rows) : rows[i].alias = alias
    THEN [i \in 1..Len(rows) |->
             IF rows[i].alias = alias
             THEN [rows[i] EXCEPT !.dim_id = dim_id]
             ELSE rows[i]]
    ELSE Append(rows, [id |-> Len(rows) + 1, alias |-> alias, dim_id |-> dim_id])

\* faulty variant: the backfill sets the id and leaves the name
BackfillFactsIdOnly(facts, kind, alias, dim_id, canonical_name) ==
    [i \in 1..Len(facts) |->
        IF FactNorm(facts[i], kind) = alias
        THEN SetFactDim(facts[i], kind, dim_id, FactNorm(facts[i], kind))
        ELSE facts[i]]

\* the UPDATE of _apply_product_alias: facts whose normalized name is the
\* alias text get the target's id and canonical name
BackfillFacts(facts, kind, alias, dim_id, canonical_name) ==
    [i \in 1..Len(facts) |->
        IF FactNorm(facts[i], kind) = alias
        THEN SetFactDim(facts[i], kind, dim_id, canonical_name)
        ELSE facts[i]]

\* faulty variant: a renamed entity leaves its facts as they were
RenameFactsSkipped(facts, kind, dim_id, canonical_name) == facts

\* the UPDATE of update_product: facts of the entity show its canonical name
RenameFacts(facts, kind, dim_id, canonical_name) ==
    [i \in 1..Len(facts) |->
        IF FactDimId(facts[i], kind) = dim_id
        THEN SetFactDim(facts[i], kind, dim_id, canonical_name)
        ELSE facts[i]]

NameTaken(kind, name, except_id) ==
    \E i \in 1..Len(dims[kind]) :
        i # except_id /\ dims[kind][i].canonical_name = name

DimUnchanged ==
    /\ UNCHANGED << upload, column_mapping, project_settings,
                    fact_marketing_spend, upload_quarantine_rows,
                    insights, _metric_cache >>
    /\ OtherTablesUnchanged

\* create_product / create_manager
create_product(kind, payload_name) ==
    LET canonical_name == Strip(payload_name)
        dim_id == Len(dims[kind]) + 1
    IN  /\ calls.dims < MaxDimCalls
        /\ Len(dims[kind]) < MaxProducts
        /\ calls' = [calls EXCEPT !.dims = @ + 1]
        /\ IF NameTaken(kind, canonical_name, 0)
           THEN \* uq_dim_products_name: the flush fails, nothing is committed
                /\ response' = [handler |-> "create_product", kind |-> kind,
                                status_code |-> 500]
                /\ UNCHANGED << dims, aliases, fact_transactions >>
           ELSE /\ dims' = [dims EXCEPT ![kind] =
                               Append(@, [id |-> dim_id,
                                          canonical_name |-> canonical_name])]
                /\ aliases' = [aliases EXCEPT ![kind] =
                                  AliasRowsAfter(@, canonical_name, dim_id)]
                /\ fact_transactions' =
                       BackfillFacts(fact_transactions, kind, canonical_name,
                                     dim_id, canonical_name)
                /\ response' = [handler |-> "create_product", kind |-> kind,
                                status_code |-> 201, alias |-> canonical_name,
                                dim_id |-> dim_id]
        /\ DimUnchanged

\* update_product / update_manager
update_product(kind, dim_id, payload_name) ==
    LET canonical_name == Strip(payload_name)
    IN  /\ calls.dims < MaxDimCalls
        /\ calls' = [calls EXCEPT !.dims = @ + 1]
        /\ IF dim_id \notin 1..Len(dims[kind])
           THEN /\ response' = [handler |-> "update_product", kind |-> kind,
                                status_code |-> 404]
                /\ UNCHANGED << dims, aliases, fact_transactions >>
           ELSE IF NameTaken(kind, canonical_name, dim_id)
           THEN /\ response' = [handler |-> "update_product", kind |-> kind,
                                status_code |-> 500]
                /\ UNCHANGED << dims, aliases, fact_transactions >>
           ELSE /\ dims' = [dims EXCEPT ![kind][dim_id].canonical_name =
                               canonical_name]
                /\ aliases' = [aliases EXCEPT ![kind] =
                                  AliasRowsAfter(@, canonical_name, dim_id)]
                /\ fact_transactions' =
                       RenameFacts(
                           BackfillFacts(fact_transactions, kind,
                                         canonical_name, dim_id, canonical_name),
                           kind, dim_id, canonical_name)
                /\ response' = [handler |-> "update_product", kind |-> kind,
                                status_code |-> 200, alias |-> canonical_name,
                                dim_id |-> dim_id]
        /\ DimUnchanged

\* add_product_alias / add_manager_alias
add_product_alias(kind, dim_id, payload_alias) ==
    LET alias == Strip(payload_alias)
    IN  /\ calls.dims < MaxDimCalls
        /\ calls' = [calls EXCEPT !.dims = @ + 1]
        /\ IF dim_id \notin 1..Len(dims[kind])
           THEN /\ response' = [handler |-> "add_product_alias", kind |-> kind,
                                status_code |-> 404]
                /\ UNCHANGED << aliases, fact_transactions >>
           ELSE IF alias = <<>>
           THEN /\ response' = [handler |-> "add_product_alias", kind |-> kind,
                                status_code |-> 400]
                /\ UNCHANGED << aliases, fact_transactions >>
           ELSE /\ aliases' = [aliases EXCEPT ![kind] =
                                  AliasRowsAfter(@, alias, dim_id)]
                /\ fact_transactions' =
                       BackfillFacts(fact_transactions, kind, alias, dim_id,
                                     dims[kind][dim_id].canonical_name)
                /\ response' = [handler |-> "add_product_alias", kind |-> kind,
                                status_code |-> 201, alias |-> alias,
                                dim_id |-> dim_id]
        /\ UNCHANGED dims
        /\ DimUnchanged

(***************************************************************************)
(* services/dashboard.py: the fact rows the dashboard reads.               *)
(***************************************************************************)
\* the characters of the model's texts in code point order
CodeOrder ==
    << " ", ",", "-", ".", "/",
       "0", "1", "2", "3", "4", "5", "6", "7", "8", "9",
       "A", "B", "D", "E", "F", "L", "M", "N", "O", "P", "R", "S", "T", "U", "X",
       "a", "b", "c", "d", "e", "f", "l", "n", "o", "p", "r", "s", "t", "u",
       "x", "y", "z", "NBSP",
       "Ca", "Cv", "Cz", "Cl", "Co", "Cp", "Cr", "Ct",
       "ca", "cv", "cz", "cl", "co", "cp", "cr", "ct" >>

CodeOf(c) ==
    IF \E i \in 1..Len(CodeOrder) : CodeOrder[i] = c
    THEN CHOOSE i \in 1..Len(CodeOrder) : CodeOrder[i] = c
    ELSE 0

\* a <= b in the binary collation
TextLeq(a, b) ==
    LET differ == {i \in 1..Len(a) : i > Len(b) \/ a[i] # b[i]}
        first == CHOOSE i \in differ : \A j \in differ : i <= j
    IN  IF differ = {} THEN TRUE
        ELSE first <= Len(b) /\ CodeOf(a[first]) < CodeOf(b[first])

\* max() of a text column over a group: NULLs are skipped
MaxText(values) ==
    LET present == values \ {<<>>}
    IN  IF present = {} THEN <<>>
        ELSE CHOOSE v \in present : \A w \in present : TextLeq(w, v)

MinOf(numbers) == CHOOSE n \in numbers : \A m \in numbers : n <= m
MaxOf(numbers) == CHOOSE n \in numbers : \A m \in numbers : n >= m

RECURSIVE SumOver(_, _, _)
SumOver(facts, indices, field) ==
    IF indices = {} THEN 0
    ELSE LET i == CHOOSE j \in indices : TRUE
         IN  facts[i][field] + SumOver(facts, indices \ {i}, field)

\* cast(id as String)
RECURSIVE IdText(_)
IdText(id) ==
    LET digit == CodeOrder[6 + (id % 10)]
    IN  IF id < 10 THEN <<digit>> ELSE Append(IdText(id \div 10), digit)

\* coalesce(order_id, transaction_id, cast(id as String))
_order_key(fact) ==
    IF fact.order_id # <<>> THEN fact.order_id
    ELSE IF fact.transaction_id # <<>> THEN fact.transaction_id
    ELSE IdText(fact.id)

\* the rows of the subquery _transaction_source builds, in the order of the
\* (lowest) id they come from
_transaction_source(dedup_policy) ==
    LET facts == fact_transactions
        all == 1..Len(facts)
    IN  IF dedup_policy = "last_row_wins"
        THEN SelectSeq(facts,
                 LAMBDA f : \A i \in all :
                     _order_key(facts[i]) = _order_key(f)
                         => facts[i].created_at <= f.created_at)
        ELSE IF dedup_policy = "aggregate_by_order_id"
        THEN LET Group(i) == {j \in all :
                                 /\ _order_key(facts[j]) = _order_key(facts[i])
                                 /\ facts[j].operation_type
                                        = facts[i].operation_type}
                 heads == {i \in all : i = MinOf(Group(i))}
                 Text(i, field) == MaxText({facts[j][field] : j \in Group(i)})
                 Row(i) ==
                     [dedup_key |-> _order_key(facts[i]),
                      id |-> MinOf({facts[j].id : j \in Group(i)}),
                      date |-> MinOf({facts[j].date : j \in Group(i)}),
                      operation_type |-> facts[i].operation_type,
                      amount |-> SumOver(facts, Group(i), "amount"),
                      transaction_id |-> Text(i, "transaction_id"),
                      order_id |-> Text(i, "order_id"),
                      product_name_norm |-> Text(i, "product_name_norm"),
                      manager_norm |-> Text(i, "manager_norm"),
                      payment_method |-> Text(i, "payment_method"),
                      fee_1 |-> SumOver(facts, Group(i), "fee_1"),
                      fee_2 |-> SumOver(facts, Group(i), "fee_2"),
                      fee_3 |-> SumOver(facts, Group(i), "fee_3"),
                      fee_total |-> SumOver(facts, Group(i), "fee_total"),
                      created_at |->
                          MaxOf({facts[j].created_at : j \in Group(i)})]
                 RECURSIVE Rows(_)
                 Rows(n) == IF n = 0 THEN <<>>
                            ELSE IF n \in heads THEN Append(Rows(n - 1), Row(n))
                            ELSE Rows(n - 1)
             IN  Rows(Len(facts))
        ELSE facts

\* _basic_aggregates over the rows of `table` with from_date <= date <=
\* to_date (no filter): the values of the gross_sales, refunds, net_revenue
\* and orders cards
_basic_aggregates(table, from_date, to_date) ==
    LET rows == {n \in 1..Len(table) :
                    table[n].date >= from_date /\ table[n].date <= to_date}
        sales == {n \in rows : table[n].operation_type = SALE}
        refunded == {n \in rows : table[n].operation_type = REFUND}
    IN  [gross_sales |-> SumOver(table, sales, "amount"),
         refunds |-> SumOver(table, refunded, "amount"),
         net_revenue |-> SumOver(table, sales, "amount")
                         - SumOver(table, refunded, "amount"),
         orders |-> Cardinality({_order_key(table[n]) : n \in sales})]

\* the aggregates get_dashboard_data shows for a period
get_dashboard_data(from_date, to_date) ==
    _basic_aggregates(_transaction_source(project_settings.dedup_policy),
                      from_date, to_date)

Init ==
    /\ upload = NoUpload
    /\ column_mapping = NoMapping
    /\ project_settings = [dedup_policy |-> "keep_all_rows"]
    /\ fact_transactions = <<>>
    /\ fact_marketing_spend = <<>>
    /\ upload_quarantine_rows = <<>>
    /\ dims = [k \in DimKinds |-> <<>>]
    /\ aliases = [k \in DimKinds |-> <<>>]
    /\ insights = <<>>
    /\ _metric_cache = <<>>
    /\ response = [handler |-> "none", status_code |-> 0]
    /\ calls = [settings |-> 0, imports |-> 0, dims |-> 0]
    /\ NoSources
    /\ NoAlerts
    /\ sessions = NoSessions

Next ==
    \/ /\ upload = NoUpload
       /\ \E t \in UploadTypes : \E f \in Files(t) : create_upload(t, f)
    \/ \E p \in MappingPayloads : save_mapping(p)
    \/ validate_upload
    \/ import_upload("none")
    \/ \E d \in DedupPolicies : update_project_settings(d)

Spec == Init /\ [][Next]_vars

\* save_mapping called with any request body, accepted or not, on an upload
\* of either type
NextMapping ==
    \/ /\ upload = NoUpload
       /\ \E t \in UploadTypes : \E f \in Files(t) : create_upload(t, f)
    \/ \E p \in AllMappingPayloads : save_mapping(p)

SpecMapping == Init /\ [][NextMapping]_vars

(***************************************************************************)
(* services/metrics.py: evaluate_metric_availability, applied to            *)
(* requirement lists and field-presence maps of every shape.               *)
(***************************************************************************)
\* the field names of the availability requests and answers, sorted
AvailabilityFields ==
    << "amount", "fee_1", "fee_2", "fee_3", "fee_any", "order_id",
       "transaction_id" >>

\* presence.get(key, False)
PresenceGet(presence, key) ==
    IF key \in DOMAIN presence THEN presence[key] ELSE FALSE

\* what a missing requirement adds to missing_fields
expanded_requirements(requirement) ==
    IF requirement = "fee_any" THEN {"fee_1", "fee_2", "fee_3"}
    ELSE IF requirement = "group_any"
    THEN {"group_1", "group_2", "group_3", "group_4", "group_5"}
    ELSE IF requirement \in {"utm_any_transactions", "utm_any_spend"}
    THEN {"utm_source", "utm_medium", "utm_campaign", "utm_term",
          "utm_content"}
    ELSE IF requirement = "marketing_spend" THEN {"fact_marketing_spend"}
    ELSE {requirement}

\* faulty variant: a present transaction_id does not stand in for order_id
PartialOverrideOff(presence) == FALSE

\* the partial_override mark an absent order_id requirement sets
PartialOverride(presence) == PresenceGet(presence, "transaction_id")

\* the loop over the requirements from the n-th on
RECURSIVE AvailabilityLoop(_, _, _, _)
AvailabilityLoop(requirements, presence, n, acc) ==
    LET requirement == requirements[n]
        After ==
            IF requirement = "order_id" /\ ~PresenceGet(presence, "order_id")
            THEN [acc EXCEPT
                    !.partial_override = @ \/ PartialOverride(presence),
                    !.missing_fields = @ \cup {"order_id"}]
            ELSE IF PresenceGet(presence, requirement)
            THEN [acc EXCEPT !.satisfied = @ + 1]
            ELSE [acc EXCEPT !.missing_fields =
                                @ \cup expanded_requirements(requirement)]
    IN  IF n > Len(requirements) THEN acc
        ELSE AvailabilityLoop(requirements, presence, n + 1, After)

\* (status, missing_fields); sorted(set(missing_fields)) is the missing
\* names in the order of AvailabilityFields
evaluate_metric_availability(requirements, presence) ==
    LET Answer(acc) ==
            IF acc.satisfied = Len(requirements)
            THEN [status |-> "available", missing_fields |-> <<>>]
            ELSE [status |-> IF acc.satisfied = 0 /\ ~acc.partial_override
                             THEN "unavailable" ELSE "partial",
                  missing_fields |->
                      SelectSeq(AvailabilityFields,
                                LAMBDA f : f \in acc.missing_fields)]
    IN  IF requirements = <<>>
        THEN [status |-> "available", missing_fields |-> <<>>]
        ELSE Answer(AvailabilityLoop(requirements, presence, 1,
                        [missing_fields |-> {}, satisfied |-> 0,
                         partial_override |-> FALSE]))

\* requirement names and presence keys of the requests
MaxRequirements == 3
RequirementNames == {"order_id", "transaction_id", "amount", "fee_any"}
RequirementLists == SeqsUpTo(RequirementNames, MaxRequirements)
PresenceMaps ==
    UNION {[keys -> BOOLEAN] : keys \in SUBSET RequirementNames}

\* a request: a requirement list and a presence map
InitAvailability ==
    /\ upload = NoUpload
    /\ column_mapping = NoMapping
    /\ project_settings = [dedup_policy |-> "keep_all_rows"]
    /\ fact_transactions = <<>>
    /\ fact_marketing_spend = <<>>
    /\ upload_quarantine_rows = <<>>
    /\ dims = [k \in DimKinds |-> <<>>]
    /\ aliases = [k \in DimKinds |-> <<>>]
    /\ insights = <<>>
    /\ _metric_cache = <<>>
    /\ \E requirements \in RequirementLists : \E presence \in PresenceMaps :
          response = [handler |-> "request", requirements |-> requirements,
                      presence |-> presence]
    /\ calls = [settings |-> 0, imports |-> 0, dims |-> 0]
    /\ NoSources
    /\ NoAlerts
    /\ sessions = NoSessions

\* the evaluation of the request: the response holds the request and its
\* answer
EvaluateAvailability ==
    /\ response.handler = "request"
    /\ response' = [handler |-> "evaluate_metric_availability",
                    requirements |-> response.requirements,
                    presence |-> response.presence,
                    result |-> evaluate_metric_availability(
                                   response.requirements, response.presence)]
    /\ UNCHANGED << upload, column_mapping, project_settings,
                    fact_transactions, fact_marketing_spend,
                    upload_quarantine_rows, dims, aliases, insights,
                    _metric_cache, calls >>
    /\ OtherTablesUnchanged

NextAvailability == EvaluateAvailability

SpecAvailability == InitAvailability /\ [][NextAvailability]_vars

(***************************************************************************)
(* services/dashboard.py: the grouping level of the group breakdowns,      *)
(* applied to filter sets of every shape.                                  *)
(***************************************************************************)
\* f"group_{level}"
GroupKey(level) ==
    << "group_1", "group_2", "group_3", "group_4", "group_5" >>[level]

\* _normalize_filters on the text values of the group filters
_normalize_filters(filters) == [key \in DOMAIN filters |-> Strip(filters[key])]

\* filters.get(key) is truthy
FilterSet(filters, key) == key \in DOMAIN filters /\ filters[key] # <<>>

\* for level in range(level, 6): the group_level after the loop
RECURSIVE GroupLevelLoop(_, _, _)
GroupLevelLoop(filters, level, group_level) ==
    IF level > 5 THEN group_level
    ELSE GroupLevelLoop(filters, level + 1,
                        IF FilterSet(filters, GroupKey(level))
                        THEN level + 1 ELSE group_level)

\* the level and the column get_dashboard_data groups the group breakdowns by
GroupLevel(request_filters) ==
    LET Capped(group_level) ==
            [level |-> IF group_level > 5 THEN 5 ELSE group_level,
             group_column |-> GroupKey(IF group_level > 5 THEN 5
                                       ELSE group_level)]
    IN  Capped(GroupLevelLoop(_normalize_filters(request_filters), 1, 1))

\* filter sets of the dashboard requests: any group columns, each with a
\* value or a blank text
GroupFilters ==
    UNION {[keys -> {NAME_A, <<" ">>}] :
              keys \in SUBSET {GroupKey(level) : level \in 1..5}}

InitGroups ==
    /\ upload = NoUpload
    /\ column_mapping = NoMapping
    /\ project_settings = [dedup_policy |-> "keep_all_rows"]
    /\ fact_transactions = <<>>
    /\ fact_marketing_spend = <<>>
    /\ upload_quarantine_rows = <<>>
    /\ dims = [k \in DimKinds |-> <<>>]
    /\ aliases = [k \in DimKinds |-> <<>>]
    /\ insights = <<>>
    /\ _metric_cache = <<>>
    /\ \E filters \in GroupFilters :
          response = [handler |-> "request", filters |-> filters]
    /\ calls = [settings |-> 0, imports |-> 0, dims |-> 0]
    /\ NoSources
    /\ NoAlerts
    /\ sessions = NoSessions

\* the dashboard request: the response holds the filters and the grouping
GroupDrilldown ==
    /\ response.handler = "request"
    /\ response' = [handler |-> "get_dashboard_data",
                    filters |-> response.filters,
                    breakdowns |-> GroupLevel(response.filters)]
    /\ UNCHANGED << upload, column_mapping, project_settings,
                    fact_transactions, fact_marketing_spend,
                    upload_quarantine_rows, dims, aliases, insights,
                    _metric_cache, calls >>
    /\ OtherTablesUnchanged

NextGroups == GroupDrilldown

SpecGroups == InitGroups /\ [][NextGroups]_vars

(***************************************************************************)
(* Users, projects and the ownership lookups of the routers: two users     *)
(* with one project each.                                                  *)
(***************************************************************************)
\* the Project rows: project 1 of user 1, project 2 of user 2
Projects == << [owner_id |-> 1], [owner_id |-> 2] >>

UserIds == {1, 2}

\* project ids of requests; the last one is of no project
RequestProjectIds == 1..(Len(Projects) + 1)

\* the HTTPException(404) of a lookup that finds nothing
NotFound(handler, detail) ==
    [handler |-> handler, status_code |-> 404, detail |-> detail]

\* faulty variant: the owner of the project is not compared
_ensure_project_of_anyone(project_id, current_user) ==
    project_id \in 1..Len(Projects)

\* _ensure_project (uploads.py) finds the project
_ensure_project(project_id, current_user) ==
    /\ project_id \in 1..Len(Projects)
    /\ Projects[project_id].owner_id = current_user

\* _get_project (alerts.py) finds the project
_get_project(project_id, current_user) ==
    /\ project_id \in 1..Len(Projects)
    /\ Projects[project_id].owner_id = current_user

\* _get_upload (mappings.py) finds the upload: join on the owner of its
\* project, deleted or not
_get_upload(upload_id, current_user) ==
    /\ upload_id \in 1..Len(uploads)
    /\ Projects[uploads[upload_id].project_id].owner_id = current_user

(***************************************************************************)
(* api/routes/uploads.py: dashboard sources and the deletion of uploads.   *)
(***************************************************************************)
MaxUploads == 2       \* Upload rows

\* the tables create_upload calls leave: up to MaxUploads rows of the two
\* projects, none deleted
UploadTables ==
    SeqsUpTo({[project_id |-> project_id, type |-> t, is_deleted |-> FALSE] :
                 project_id \in 1..Len(Projects), t \in UploadTypes},
             MaxUploads) \ {<<>>}

\* upload ids of requests; the last one may be of no upload
RequestUploadIds == 1..MaxUploads

\* the select of an upload that is not deleted
LiveUpload(upload_id) ==
    upload_id \in 1..Len(uploads) /\ ~uploads[upload_id].is_deleted

\* the tables of the other routers
PipelineUnchanged ==
    /\ UNCHANGED << upload, column_mapping, project_settings,
                    fact_transactions, fact_marketing_spend,
                    upload_quarantine_rows, dims, aliases, insights,
                    _metric_cache, calls >>
    /\ AlertTablesUnchanged

\* set_dashboard_source; upload_id 0 is the null that clears the source
set_dashboard_source(project_id, current_user, data_type, upload_id) ==
    /\ IF ~_ensure_project(project_id, current_user)
       THEN /\ response' = NotFound("set_dashboard_source", "project")
            /\ UNCHANGED dashboard_sources
       ELSE IF upload_id # 0
               /\ ~(LiveUpload(upload_id)
                    /\ uploads[upload_id].project_id = project_id)
       THEN /\ response' = NotFound("set_dashboard_source", "upload")
            /\ UNCHANGED dashboard_sources
       ELSE IF upload_id # 0 /\ uploads[upload_id].type # data_type
       THEN /\ response' = [handler |-> "set_dashboard_source",
                            status_code |-> 422, detail |-> "data_type"]
            /\ UNCHANGED dashboard_sources
       ELSE /\ dashboard_sources' =
                  [k \in DOMAIN dashboard_sources
                           \cup {<<project_id, data_type>>} |->
                      IF k = <<project_id, data_type>> THEN upload_id
                      ELSE dashboard_sources[k]]
            /\ response' = [handler |-> "set_dashboard_source",
                            status_code |-> 200, detail |-> "",
                            project_id |-> project_id,
                            data_type |-> data_type, upload_id |-> upload_id]
    /\ UNCHANGED uploads
    /\ PipelineUnchanged

\* active_ids of cleanup_uploads
ActiveIds(sources, project_id) ==
    {sources[k] : k \in {d \in DOMAIN sources : d[1] = project_id}} \ {0}

\* cleanup_uploads; `aged` are the uploads created before the cutoff (all of
\* them when older_than_days is not given)
cleanup_uploads(project_id, current_user, aged) ==
    /\ IF ~_ensure_project(project_id, current_user)
       THEN /\ response' = NotFound("cleanup_uploads", "project")
            /\ UNCHANGED uploads
       ELSE \E selected \in
                {{id \in aged :
                     /\ LiveUpload(id)
                     /\ uploads[id].project_id = project_id
                     /\ id \notin ActiveIds(dashboard_sources, project_id)}} :
              /\ uploads' = [id \in 1..Len(uploads) |->
                                IF id \in selected
                                THEN [uploads[id] EXCEPT !.is_deleted = TRUE]
                                ELSE uploads[id]]
              /\ response' = [handler |-> "cleanup_uploads",
                              status_code |-> 200, detail |-> "",
                              deleted |-> Cardinality(selected)]
    /\ UNCHANGED dashboard_sources
    /\ PipelineUnchanged

\* faulty variant: the source of the upload's type is not looked at
UsedInDashboardNever(sources, upload_id) == FALSE

\* the guard of delete_upload: the source row of the upload's project and
\* data type points at the upload
UsedInDashboard(sources, upload_id) ==
    /\ <<uploads[upload_id].project_id, uploads[upload_id].type>>
          \in DOMAIN sources
    /\ sources[<<uploads[upload_id].project_id, uploads[upload_id].type>>]
          = upload_id

delete_upload(upload_id, current_user) ==
    /\ IF ~(LiveUpload(upload_id)
            /\ Projects[uploads[upload_id].project_id].owner_id = current_user)
       THEN /\ response' = NotFound("delete_upload", "upload")
            /\ UNCHANGED uploads
       ELSE IF UsedInDashboard(dashboard_sources, upload_id)
       THEN /\ response' = [handler |-> "delete_upload", status_code |-> 409,
                            detail |-> "dashboard"]
            /\ UNCHANGED uploads
       ELSE /\ uploads' = [uploads EXCEPT ![upload_id].is_deleted = TRUE]
            /\ response' = [handler |-> "delete_upload", status_code |-> 204,
                            detail |-> ""]
    /\ UNCHANGED dashboard_sources
    /\ PipelineUnchanged

InitSources ==
    /\ upload = NoUpload
    /\ column_mapping = NoMapping
    /\ project_settings = [dedup_policy |-> "keep_all_rows"]
    /\ fact_transactions = <<>>
    /\ fact_marketing_spend = <<>>
    /\ upload_quarantine_rows = <<>>
    /\ dims = [k \in DimKinds |-> <<>>]
    /\ aliases = [k \in DimKinds |-> <<>>]
    /\ insights = <<>>
    /\ _metric_cache = <<>>
    /\ response = [handler |-> "none", status_code |-> 0]
    /\ calls = [settings |-> 0, imports |-> 0, dims |-> 0]
    /\ uploads \in UploadTables
    /\ dashboard_sources = <<>>
    /\ NoAlerts
    /\ sessions = NoSessions

NextSources ==
    \/ \E project_id \in RequestProjectIds : \E current_user \in UserIds :
         \E t \in UploadTypes : \E id \in {0} \cup RequestUploadIds :
           set_dashboard_source(project_id, current_user, t, id)
    \/ \E project_id \in RequestProjectIds : \E current_user \in UserIds :
         \E aged \in SUBSET (1..Len(uploads)) :
           cleanup_uploads(project_id, current_user, aged)
    \/ \E id \in RequestUploadIds : \E current_user \in UserIds :
         delete_upload(id, current_user)

SpecSources == InitSources /\ [][NextSources]_vars

(***************************************************************************)
(* api/routes/alerts.py and services/alerting.py: alert rules, their       *)
(* events and the delivery of messages, for two users with one project     *)
(* each.                                                                   *)
(***************************************************************************)
MaxRules == 2         \* AlertRule rows
MaxEvents == 3        \* AlertEvent rows

\* rule ids of requests; the last one may be of no rule
RequestRuleIds == 1..MaxRules

\* what the messaging API does with a message: the bot token is not
\* configured, the message is accepted, or the call raises
Gateways == {"no_token", "ok", "error"}

\* _get_rule finds the rule
_get_rule(rule_id, project_id) ==
    /\ rule_id \in 1..Len(alert_rules)
    /\ alert_rules[rule_id].project_id = project_id

\* faulty variant: the event is added to the session and not committed
build_alert_event_uncommitted(events, rule_id, type) == events

\* build_alert_event: the table after the event of the rule is committed
build_alert_event(events, rule_id, type) ==
    Append(events, [rule_id |-> rule_id, type |-> type])

create_alert_rule(project_id, current_user, is_enabled) ==
    /\ Len(alert_rules) < MaxRules
    /\ IF ~_get_project(project_id, current_user)
       THEN /\ response' = NotFound("create_alert_rule", "project")
            /\ UNCHANGED alert_rules
       ELSE /\ alert_rules' = Append(alert_rules,
                                     [project_id |-> project_id,
                                      is_enabled |-> is_enabled])
            /\ response' = [handler |-> "create_alert_rule",
                            status_code |-> 201,
                            rule_id |-> Len(alert_rules) + 1]
    /\ UNCHANGED << alert_events, telegram_bindings, uploads,
                    dashboard_sources, upload, column_mapping,
                    project_settings, fact_transactions, fact_marketing_spend,
                    upload_quarantine_rows, dims, aliases, insights,
                    _metric_cache, calls, sessions >>

upsert_telegram_binding(project_id, current_user) ==
    /\ IF ~_get_project(project_id, current_user)
       THEN /\ response' = NotFound("upsert_telegram_binding", "project")
            /\ UNCHANGED telegram_bindings
       ELSE /\ telegram_bindings' = telegram_bindings \cup {project_id}
            /\ response' = [handler |-> "upsert_telegram_binding",
                            status_code |-> 200, project_id |-> project_id]
    /\ UNCHANGED << alert_rules, alert_events, uploads, dashboard_sources,
                    upload, column_mapping, project_settings,
                    fact_transactions, fact_marketing_spend,
                    upload_quarantine_rows, dims, aliases, insights,
                    _metric_cache, calls, sessions >>

delete_telegram_binding(project_id, current_user) ==
    /\ IF ~_get_project(project_id, current_user)
       THEN /\ response' = NotFound("delete_telegram_binding", "project")
            /\ UNCHANGED telegram_bindings
       ELSE /\ telegram_bindings' = telegram_bindings \ {project_id}
            /\ response' = [handler |-> "delete_telegram_binding",
                            status_code |-> 204, project_id |-> project_id]
    /\ UNCHANGED << alert_rules, alert_events, uploads, dashboard_sources,
                    upload, column_mapping, project_settings,
                    fact_transactions, fact_marketing_spend,
                    upload_quarantine_rows, dims, aliases, insights,
                    _metric_cache, calls, sessions >>

send_alert_test(project_id, rule_id, current_user, gateway) ==
    /\ Len(alert_events) < MaxEvents
    /\ IF ~_get_project(project_id, current_user)
       THEN /\ response' = NotFound("send_alert_test", "project")
            /\ UNCHANGED alert_events
       ELSE IF ~_get_rule(rule_id, project_id)
       THEN /\ response' = NotFound("send_alert_test", "rule")
            /\ UNCHANGED alert_events
       ELSE /\ alert_events' = build_alert_event(alert_events, rule_id, "test")
            /\ response' =
                 IF project_id \notin telegram_bindings
                 THEN [handler |-> "send_alert_test", status_code |-> 404,
                       detail |-> "telegram", rule_id |-> rule_id]
                 ELSE IF gateway = "error"
                 THEN [handler |-> "send_alert_test", status_code |-> 502,
                       detail |-> "gateway", rule_id |-> rule_id]
                 ELSE [handler |-> "send_alert_test", status_code |-> 200,
                       detail |-> "", rule_id |-> rule_id,
                       message_sent |-> (gateway = "ok")]
    /\ UNCHANGED << alert_rules, telegram_bindings, uploads,
                    dashboard_sources, upload, column_mapping,
                    project_settings, fact_transactions, fact_marketing_spend,
                    upload_quarantine_rows, dims, aliases, insights,
                    _metric_cache, calls, sessions >>

\* the loop of run_daily_alerts from rule `rule_id` on; `raising` are the
\* rules whose evaluation raises, `firing` the rules that fire, `failing`
\* the rules whose message the messaging API refuses
RECURSIVE DailyLoop(_, _, _, _, _, _)
DailyLoop(rule_id, events, returned, raising, firing, failing) ==
    IF rule_id > Len(alert_rules)
    THEN [events |-> events, returned |-> returned, raised |-> "",
          rule_id |-> 0]
    ELSE IF ~alert_rules[rule_id].is_enabled
    THEN DailyLoop(rule_id + 1, events, returned, raising, firing, failing)
    ELSE IF rule_id \in raising
    THEN [events |-> events, returned |-> <<>>, raised |-> "evaluate_rule",
          rule_id |-> rule_id]
    ELSE IF rule_id \notin firing
    THEN DailyLoop(rule_id + 1, events, returned, raising, firing, failing)
    ELSE LET Sent(built) ==
                 IF alert_rules[rule_id].project_id \in telegram_bindings
                    /\ rule_id \in failing
                 THEN [events |-> built, returned |-> <<>>,
                       raised |-> "send_telegram_message",
                       rule_id |-> rule_id]
                 ELSE DailyLoop(rule_id + 1, built,
                                Append(returned, Len(built)), raising, firing,
                                failing)
         IN  Sent(build_alert_event(events, rule_id, "fired"))

run_daily_alerts(raising, firing, failing) ==
    /\ Len(alert_events) + Cardinality(firing) <= MaxEvents
    /\ \E done \in {DailyLoop(1, alert_events, <<>>, raising, firing,
                              failing)} :
          /\ alert_events' = done.events
          /\ response' = [handler |-> "run_daily_alerts", status_code |-> 0,
                          raised |-> done.raised, rule_id |-> done.rule_id,
                          events |-> done.returned]
    /\ UNCHANGED << alert_rules, telegram_bindings, uploads,
                    dashboard_sources, upload, column_mapping,
                    project_settings, fact_transactions, fact_marketing_spend,
                    upload_quarantine_rows, dims, aliases, insights,
                    _metric_cache, calls, sessions >>

\* the ids of the events of a rule, latest first
RECURSIVE EventsOfRule(_, _)
EventsOfRule(rule_id, n) ==
    IF n = 0 THEN <<>>
    ELSE IF alert_events[n].rule_id = rule_id
    THEN <<n>> \o EventsOfRule(rule_id, n - 1)
    ELSE EventsOfRule(rule_id, n - 1)

list_alert_events(project_id, rule_id, current_user) ==
    /\ response' =
         IF ~_get_project(project_id, current_user)
         THEN NotFound("list_alert_events", "project")
         ELSE IF ~_get_rule(rule_id, project_id)
         THEN NotFound("list_alert_events", "rule")
         ELSE [handler |-> "list_alert_events", status_code |-> 200,
               rule_id |-> rule_id,
               events |-> EventsOfRule(rule_id, Len(alert_events))]
    /\ UNCHANGED << alert_rules, alert_events, telegram_bindings, uploads,
                    dashboard_sources, upload, column_mapping,
                    project_settings, fact_transactions, fact_marketing_spend,
                    upload_quarantine_rows, dims, aliases, insights,
                    _metric_cache, calls, sessions >>

NextAlerts ==
    \/ \E project_id \in RequestProjectIds : \E current_user \in UserIds :
         \E is_enabled \in BOOLEAN :
           create_alert_rule(project_id, current_user, is_enabled)
    \/ \E project_id \in RequestProjectIds : \E current_user \in UserIds :
         upsert_telegram_binding(project_id, current_user)
    \/ \E project_id \in RequestProjectIds : \E current_user \in UserIds :
         delete_telegram_binding(project_id, current_user)
    \/ \E project_id \in RequestProjectIds : \E rule_id \in RequestRuleIds :
         \E current_user \in UserIds : \E gateway \in Gateways :
           send_alert_test(project_id, rule_id, current_user, gateway)
    \/ \E raising \in SUBSET (1..Len(alert_rules)) :
         \E firing \in SUBSET (1..Len(alert_rules)) :
           \E failing \in SUBSET firing :
             run_daily_alerts(raising, firing, failing)
    \/ \E project_id \in RequestProjectIds : \E rule_id \in RequestRuleIds :
         \E current_user \in UserIds :
           list_alert_events(project_id, rule_id, current_user)

SpecAlerts == Init /\ [][NextAlerts]_vars

(***************************************************************************)
(* One request of either user, on a project, an upload or a rule of        *)
(* either user or of nobody, against the tables earlier calls have left.   *)
(***************************************************************************)
\* preview_upload: what it tells of the Upload row (the preview of the file
\* is left out)
preview_upload(upload_id, current_user) ==
    /\ response' =
         IF ~_get_upload(upload_id, current_user)
         THEN NotFound("preview_upload", "upload")
         ELSE [handler |-> "preview_upload", status_code |-> 200,
               detail |-> "", upload_type |-> uploads[upload_id].type,
               project_id |-> uploads[upload_id].project_id]
    /\ UNCHANGED << uploads, dashboard_sources >>
    /\ PipelineUnchanged

\* Upload tables after create_upload and delete_upload calls of both users
OwnershipUploads ==
    SeqsUpTo({[project_id |-> project_id, type |-> "transactions",
               is_deleted |-> is_deleted] :
                 project_id \in 1..Len(Projects), is_deleted \in BOOLEAN},
             MaxUploads)

\* dashboard source tables after at most one set_dashboard_source call
OwnershipSources(table) ==
    {<<>>} \cup
    UNION {{[k \in {<<table[id].project_id, table[id].type>>} |-> upload_id] :
               upload_id \in {0, id}} :
              id \in {i \in 1..Len(table) : ~table[i].is_deleted}}

\* AlertRule tables after create_alert_rule calls of both users
OwnershipRules ==
    SeqsUpTo({[project_id |-> project_id, is_enabled |-> TRUE] :
                 project_id \in 1..Len(Projects)}, MaxRules)

InitOwnership ==
    /\ upload = NoUpload
    /\ column_mapping = NoMapping
    /\ project_settings = [dedup_policy |-> "keep_all_rows"]
    /\ fact_transactions = <<>>
    /\ fact_marketing_spend = <<>>
    /\ upload_quarantine_rows = <<>>
    /\ dims = [k \in DimKinds |-> <<>>]
    /\ aliases = [k \in DimKinds |-> <<>>]
    /\ insights = <<>>
    /\ _metric_cache = <<>>
    /\ response = [handler |-> "request", status_code |-> 0]
    /\ calls = [settings |-> 0, imports |-> 0, dims |-> 0]
    /\ uploads \in OwnershipUploads
    /\ dashboard_sources \in OwnershipSources(uploads)
    /\ alert_rules \in OwnershipRules
    /\ alert_events \in
          {<<>>} \cup {<< [rule_id |-> 1, type |-> "test"] >> :
                          r \in {1} \cap DOMAIN alert_rules}
    /\ telegram_bindings \in {{}, 1..Len(Projects)}
    /\ sessions = NoSessions

NextOwnership ==
    /\ response.handler = "request"
    /\ \/ \E project_id \in RequestProjectIds : \E current_user \in UserIds :
            \E t \in UploadTypes : \E id \in {0} \cup RequestUploadIds :
              set_dashboard_source(project_id, current_user, t, id)
       \/ \E project_id \in RequestProjectIds : \E current_user \in UserIds :
            \E aged \in SUBSET (1..Len(uploads)) :
              cleanup_uploads(project_id, current_user, aged)
       \/ \E id \in RequestUploadIds : \E current_user \in UserIds :
            delete_upload(id, current_user)
       \/ \E id \in RequestUploadIds : \E current_user \in UserIds :
            preview_upload(id, current_user)
       \/ \E project_id \in RequestProjectIds : \E current_user \in UserIds :
            create_alert_rule(project_id, current_user, TRUE)
       \/ \E project_id \in RequestProjectIds : \E current_user \in UserIds :
            upsert_telegram_binding(project_id, current_user)
       \/ \E project_id \in RequestProjectIds : \E current_user \in UserIds :
            delete_telegram_binding(project_id, current_user)
       \/ \E project_id \in RequestProjectIds : \E rule_id \in RequestRuleIds :
            \E current_user \in UserIds : \E gateway \in Gateways :
              send_alert_test(project_id, rule_id, current_user, gateway)
       \/ \E project_id \in RequestProjectIds : \E rule_id \in RequestRuleIds :
            \E current_user \in UserIds :
              list_alert_events(project_id, rule_id, current_user)

SpecOwnership == InitOwnership /\ [][NextOwnership]_vars

(***************************************************************************)
(* Dimension maintenance over the facts of an upload that is already       *)
(* mapped (create_upload and save_mapping have run).                       *)
(***************************************************************************)
DimsFile ==
    [headers |-> HEADERS_TX,
     rows |-> << << TX_1, ORDER_1, D_ISO, OP_SALE, A_100, EMPTY, NAME_a, NAME_M, FEE_5 >>,
                 << TX_1, EMPTY, D_RU, OP_REFUND, A_NEG, EMPTY, NAME_A, NAME_A, EMPTY >> >>]

DimsMapping ==
    [saved |-> TRUE,
     mapping_json |->
        [mapping |-> FullMapping,
         value_mapping |-> [operation_type |-> <<>>],
         unknown_operation_policy |-> "error"],
     normalization_json |-> <<>>]

\* canonical names of the dimension requests; none is blank: a blank name
\* would store an empty string, which differs from NULL, and <<>> is NULL
DimNames(kind) ==
    IF kind = "product" THEN {NAME_A, NAME_a, <<" ", "B">>}
    ELSE {NAME_M, NAME_A}

\* alias texts of the add-alias requests
AliasTexts(kind) == DimNames(kind) \cup {<<" ">>}

InitDims ==
    /\ upload = [status |-> "uploaded", type |-> "transactions",
                 file |-> DimsFile]
    /\ column_mapping = DimsMapping
    /\ project_settings = [dedup_policy |-> "keep_all_rows"]
    /\ fact_transactions = <<>>
    /\ fact_marketing_spend = <<>>
    /\ upload_quarantine_rows = <<>>
    /\ dims = [k \in DimKinds |-> <<>>]
    /\ aliases = [k \in DimKinds |-> <<>>]
    /\ insights = <<>>
    /\ _metric_cache = <<>>
    /\ response = [handler |-> "save_mapping", status_code |-> 201]
    /\ calls = [settings |-> 0, imports |-> 0, dims |-> 0]
    /\ uploads = << [project_id |-> 1, type |-> "transactions",
                      is_deleted |-> FALSE] >>
    /\ dashboard_sources = <<>>
    /\ NoAlerts
    /\ sessions = NoSessions

NextDims ==
    \/ import_upload("none")
    \/ \E k \in DimKinds : \E n \in DimNames(k) : create_product(k, n)
    \/ \E k \in DimKinds : \E d \in 1..MaxProducts : \E n \in DimNames(k) :
          update_product(k, d, n)
    \/ \E k \in DimKinds : \E d \in 1..MaxProducts : \E n \in AliasTexts(k) :
          add_product_alias(k, d, n)

SpecDims == InitDims /\ [][NextDims]_vars

\* the dimension calls on a project that has two products, the first one
\* with a second alias (create_product twice and add_product_alias once,
\* before anything was imported)
InitReassign ==
    /\ upload = [status |-> "uploaded", type |-> "transactions",
                 file |-> DimsFile]
    /\ column_mapping = DimsMapping
    /\ project_settings = [dedup_policy |-> "keep_all_rows"]
    /\ fact_transactions = <<>>
    /\ fact_marketing_spend = <<>>
    /\ upload_quarantine_rows = <<>>
    /\ dims = [k \in DimKinds |->
                  IF k = "product"
                  THEN << [id |-> 1, canonical_name |-> NAME_A],
                          [id |-> 2, canonical_name |-> <<"B">>] >>
                  ELSE <<>>]
    /\ aliases = [k \in DimKinds |->
                     IF k = "product"
                     THEN << [id |-> 1, alias |-> NAME_A, dim_id |-> 1],
                             [id |-> 2, alias |-> <<"B">>, dim_id |-> 2],
                             [id |-> 3, alias |-> NAME_a, dim_id |-> 1] >>
                     ELSE <<>>]
    /\ insights = <<>>
    /\ _metric_cache = <<>>
    /\ response = [handler |-> "add_product_alias", kind |-> "product",
                   status_code |-> 201, alias |-> NAME_a, dim_id |-> 1]
    /\ calls = [settings |-> 0, imports |-> 0, dims |-> 0]
    /\ uploads = << [project_id |-> 1, type |-> "transactions",
                      is_deleted |-> FALSE] >>
    /\ dashboard_sources = <<>>
    /\ NoAlerts
    /\ sessions = NoSessions

SpecReassign == InitReassign /\ [][NextDims]_vars

(***************************************************************************)
(* import_upload and add_product_alias (add_manager_alias) as two database *)
(* transactions that overlap.  The engine is PostgreSQL at its default     *)
(* isolation level: a statement reads what was committed when it runs, and *)
(* the writes of a session are seen by the other one from its commit on.   *)
(* Each handler is cut at its commit: the part that reads and flushes, and *)
(* the commit with what follows it.                                        *)
(***************************************************************************)
\* faulty variant: the facts are built from the alias rows read at the commit
PendingFactsResolvedAtCommit(session) ==
    [n \in 1..Len(session.persisted) |->
        FactRecord(session.persisted[n], Len(fact_transactions) + n,
                   column_mapping)]

\* the FactTransaction rows a session has added and not yet committed
PendingFacts(session) == session.records

\* import_upload up to its first commit: the rows are validated, the aliases
\* resolved and the records added to the session
import_upload_resolve ==
    /\ sessions.import.pc = "idle"
    /\ upload # NoUpload
    /\ upload.type = "transactions"
    /\ column_mapping.saved
    /\ calls.imports < MaxImports
    /\ \E built \in {_build_quality_report(upload.type, upload.file,
                                            column_mapping)} :
       \E quarantine_rows \in
             {SelectSeq(built.processed_rows, LAMBDA e : e.skip)} :
       \E ready_rows \in
             {SelectSeq(built.processed_rows, LAMBDA e : ~e.skip)} :
       \E persisted \in
             {ApplyDedupPolicy(project_settings.dedup_policy, ready_rows)} :
          sessions' =
             [sessions EXCEPT
                 !.import = [pc |-> "resolved",
                             report |-> built.report,
                             ready_rows |-> ready_rows,
                             quarantine_rows |-> quarantine_rows,
                             persisted |-> persisted,
                             records |->
                                [n \in 1..Len(persisted) |->
                                    FactRecord(persisted[n],
                                               Len(fact_transactions) + n,
                                               column_mapping)]],
                 !.log = Append(@, "import_upload_resolve")]
    /\ UNCHANGED << upload, column_mapping, project_settings,
                    fact_transactions, fact_marketing_spend,
                    upload_quarantine_rows, dims, aliases, insights,
                    _metric_cache, response, calls, uploads,
                    dashboard_sources, alert_rules, alert_events,
                    telegram_bindings >>

\* import_upload from its first commit on
import_upload_commit ==
    /\ sessions.import.pc = "resolved"
    /\ \E session \in {sessions.import} :
       \E facts_after \in {fact_transactions \o PendingFacts(session)} :
       \E generated \in
             {InsightsAfterImport(facts_after, insights, _metric_cache,
                                  "none")} :
          /\ fact_transactions' = facts_after
          /\ upload' = [upload EXCEPT !.status =
                           StatusAfterImport(upload.status)]
          /\ upload_quarantine_rows' = upload_quarantine_rows \o
                 [n \in 1..Len(session.quarantine_rows) |->
                     QuarantineRecord(session.quarantine_rows[n])]
          /\ insights' = generated.insights
          /\ _metric_cache' = generated.cache
          /\ calls' = [calls EXCEPT !.imports = @ + 1]
          /\ response' = [handler |-> "import_upload",
                          status_code |-> 200,
                          imported |-> Len(session.persisted),
                          report |-> session.report,
                          ready_rows |-> session.ready_rows,
                          quarantine_rows |-> session.quarantine_rows,
                          dedup_policy |-> project_settings.dedup_policy,
                          status_before |-> upload.status]
          /\ sessions' = [sessions EXCEPT
                             !.import = [pc |-> "done"],
                             !.log = Append(@, "import_upload_commit")]
    /\ UNCHANGED << column_mapping, project_settings, fact_marketing_spend,
                    dims, aliases, uploads, dashboard_sources, alert_rules,
                    alert_events, telegram_bindings >>

\* add_product_alias / add_manager_alias up to its commit: the alias row is
\* flushed and the UPDATE of the facts has run on the committed facts
add_product_alias_flush(kind, dim_id, payload_alias) ==
    LET alias == Strip(payload_alias)
    IN  /\ sessions.alias.pc = "idle"
        /\ calls.dims < MaxDimCalls
        /\ calls' = [calls EXCEPT !.dims = @ + 1]
        /\ IF dim_id \notin 1..Len(dims[kind])
           THEN /\ response' = [handler |-> "add_product_alias", kind |-> kind,
                                status_code |-> 404]
                /\ sessions' = [sessions EXCEPT
                                   !.alias = [pc |-> "done",
                                              status_code |-> 404],
                                   !.log = Append(@, "add_product_alias")]
           ELSE IF alias = <<>>
           THEN /\ response' = [handler |-> "add_product_alias", kind |-> kind,
                                status_code |-> 400]
                /\ sessions' = [sessions EXCEPT
                                   !.alias = [pc |-> "done",
                                              status_code |-> 400],
                                   !.log = Append(@, "add_product_alias")]
           ELSE /\ UNCHANGED response
                /\ sessions' =
                      [sessions EXCEPT
                          !.alias =
                             [pc |-> "flushed", kind |-> kind,
                              dim_id |-> dim_id, alias |-> alias,
                              existing |-> resolve_alias(kind, alias),
                              canonical_name |->
                                  dims[kind][dim_id].canonical_name,
                              matched |->
                                  {n \in 1..Len(fact_transactions) :
                                      FactNorm(fact_transactions[n], kind)
                                         = alias}],
                          !.log = Append(@, "add_product_alias_backfill")]
        /\ UNCHANGED << upload, column_mapping, project_settings,
                        fact_transactions, fact_marketing_spend,
                        upload_quarantine_rows, dims, aliases, insights,
                        _metric_cache, uploads, dashboard_sources,
                        alert_rules, alert_events, telegram_bindings >>

\* the commit of add_product_alias / add_manager_alias
add_product_alias_commit ==
    /\ sessions.alias.pc = "flushed"
    /\ \E session \in {sessions.alias} :
          /\ aliases' = [aliases EXCEPT ![session.kind] =
                            AliasRowsAfter(@, session.alias, session.dim_id)]
          /\ fact_transactions' =
                [n \in 1..Len(fact_transactions) |->
                    IF n \in session.matched
                    THEN SetFactDim(fact_transactions[n], session.kind,
                                    session.dim_id, session.canonical_name)
                    ELSE fact_transactions[n]]
          /\ response' = [handler |-> "add_product_alias",
                          kind |-> session.kind, status_code |-> 201,
                          alias |-> session.alias, dim_id |-> session.dim_id]
          /\ sessions' = [sessions EXCEPT
                             !.alias = [pc |-> "done", status_code |-> 201,
                                        kind |-> session.kind,
                                        dim_id |-> session.dim_id,
                                        alias |-> session.alias,
                                        existing |-> session.existing],
                             !.log = Append(@, "add_product_alias_commit")]
    /\ UNCHANGED << upload, column_mapping, project_settings,
                    fact_marketing_spend, upload_quarantine_rows, dims,
                    insights, _metric_cache, calls, uploads,
                    dashboard_sources, alert_rules, alert_events,
                    telegram_bindings >>

\* a project with one product and one manager, a mapped upload and nothing
\* imported
InitRace ==
    /\ upload \in
          {[status |-> "uploaded", type |-> "transactions",
            file |-> [DimsFile EXCEPT !.rows = SubSeq(@, 1, n)]] :
              n \in 1..Len(DimsFile.rows)}
    /\ column_mapping = DimsMapping
    /\ project_settings = [dedup_policy |-> "keep_all_rows"]
    /\ fact_transactions = <<>>
    /\ fact_marketing_spend = <<>>
    /\ upload_quarantine_rows = <<>>
    /\ dims = [k \in DimKinds |->
                  << [id |-> 1,
                      canonical_name |->
                          IF k = "product" THEN NAME_A ELSE NAME_M] >>]
    /\ aliases = [k \in DimKinds |->
                     << [id |-> 1,
                         alias |-> IF k = "product" THEN NAME_A ELSE NAME_M,
                         dim_id |-> 1] >>]
    /\ insights = <<>>
    /\ _metric_cache = <<>>
    /\ response = [handler |-> "save_mapping", status_code |-> 201]
    /\ calls = [settings |-> 0, imports |-> 0, dims |-> 0]
    /\ uploads = << [project_id |-> 1, type |-> "transactions",
                      is_deleted |-> FALSE] >>
    /\ dashboard_sources = <<>>
    /\ NoAlerts
    /\ sessions = NoSessions

NextRace ==
    \/ import_upload_resolve
    \/ import_upload_commit
    \/ \E k \in DimKinds : \E d \in 1..MaxProducts : \E n \in AliasTexts(k) :
          add_product_alias_flush(k, d, n)
    \/ add_product_alias_commit

SpecRace == InitRace /\ [][NextRace]_vars

\* the pipeline with an insight generation that may fail
NextInsightFailure ==
    \/ /\ upload = NoUpload
       /\ \E t \in UploadTypes : \E f \in Files(t) : create_upload(t, f)
    \/ \E p \in MappingPayloads : save_mapping(p)
    \/ \E raising \in InsightFailures : import_upload(raising)

SpecInsightFailure == Init /\ [][NextInsightFailure]_vars

(***************************************************************************)
(* api/routes/metrics.py and api/routes/dashboard.py: metric requests and  *)
(* the clearing of the project data, between imports and dimension edits.  *)
(***************************************************************************)
\* the metric keys and date ranges of the get_metric requests
MetricRequests ==
    { <<"gross_sales", 20240101, 20240131>>, <<"orders", 20240101, 20240131>>,
      <<"gross_sales", 20231227, 20240102>> }

\* get_metric of a defined metric: compute_metric through the cache
get_metric(metric_key, from_date, to_date) ==
    /\ \E computed \in {compute_metric(fact_transactions, _metric_cache,
                                       metric_key, from_date, to_date)} :
          /\ _metric_cache' = computed.cache
          /\ response' = [handler |-> "get_metric", status_code |-> 200,
                          metric_key |-> metric_key, from_date |-> from_date,
                          to_date |-> to_date, value |-> computed.value]
    /\ UNCHANGED << upload, column_mapping, project_settings,
                    fact_transactions, fact_marketing_spend,
                    upload_quarantine_rows, dims, aliases, insights, calls >>
    /\ OtherTablesUnchanged

\* faulty variant: clearing the data also empties the metric cache
clear_dashboard_and_cache ==
    /\ fact_transactions' = <<>>
    /\ fact_marketing_spend' = <<>>
    /\ insights' = <<>>
    /\ aliases' = [k \in DimKinds |-> <<>>]
    /\ dims' = [k \in DimKinds |-> <<>>]
    /\ _metric_cache' = <<>>
    /\ response' = [handler |-> "clear_dashboard", status_code |-> 204]
    /\ UNCHANGED << upload, column_mapping, project_settings,
                    upload_quarantine_rows, calls >>
    /\ OtherTablesUnchanged

\* clear_dashboard: facts, insights, aliases and dimensions of the project
\* are deleted
clear_dashboard ==
    /\ fact_transactions' = <<>>
    /\ fact_marketing_spend' = <<>>
    /\ insights' = <<>>
    /\ aliases' = [k \in DimKinds |-> <<>>]
    /\ dims' = [k \in DimKinds |-> <<>>]
    /\ response' = [handler |-> "clear_dashboard", status_code |-> 204]
    /\ UNCHANGED << upload, column_mapping, project_settings,
                    upload_quarantine_rows, _metric_cache, calls >>
    /\ OtherTablesUnchanged

NextCache ==
    \/ NextDims
    \/ \E request \in MetricRequests :
          get_metric(request[1], request[2], request[3])
    \/ clear_dashboard

SpecCache == InitDims /\ [][NextCache]_vars

(***************************************************************************)
(* The operation type resolution of _build_quality_report on its own: one  *)
(* row's operation cell and payment-method cell under one stored remap     *)
(* table.                                                                  *)
(***************************************************************************)
PAY_REFUND == <<"Co", "ct", "cm", "ce", "cn", "ca">>
OP_SALE_PADDED == <<" ", "S", "A", "L", "E", " ">>

OperationCells ==
    {EMPTY, OP_BLANK, OP_SALE, OP_SALE_PADDED, OP_REFUND, OP_X, OP_BOTH,
     PAY_SALE, PAY_REFUND}

\* a payment-method cell; "unmapped" when the mapping has no such column
PaymentCells == {"unmapped", EMPTY, OP_SALE, OP_X, OP_BOTH, PAY_SALE, PAY_REFUND}

\* value-remap lists save_mapping accepts
OperationRemaps ==
    { <<>>,
      << << OP_X, REFUND >> >>,
      << << OP_SALE_PADDED, REFUND >>, << PAY_REFUND, SALE >> >>,
      << << OP_BOTH, SALE >>, << OP_BLANK, REFUND >> >>,
      << << PAY_SALE, REFUND >>, << OP_REFUND, SALE >> >> }

InitOperation ==
    /\ upload = NoUpload
    /\ column_mapping = NoMapping
    /\ project_settings = [dedup_policy |-> "keep_all_rows"]
    /\ fact_transactions = <<>>
    /\ fact_marketing_spend = <<>>
    /\ upload_quarantine_rows = <<>>
    /\ dims = [k \in DimKinds |-> <<>>]
    /\ aliases = [k \in DimKinds |-> <<>>]
    /\ insights = <<>>
    /\ _metric_cache = <<>>
    /\ response \in
          [handler : {"request"}, status_code : {0},
           operation : OperationCells, payment : PaymentCells,
           remap : {NormalizedOperationMapping(pairs) :
                       pairs \in OperationRemaps}]
    /\ calls = [settings |-> 0, imports |-> 0, dims |-> 0]
    /\ NoSources
    /\ NoAlerts
    /\ sessions = NoSessions

\* the operation type of the row of the request
resolve_operation ==
    /\ response.handler = "request"
    /\ \E row_payload \in
          {[f \in {"operation_type"}
                  \cup (IF response.payment = "unmapped" THEN {}
                        ELSE {"payment_method"}) |->
               LET cell == IF f = "operation_type" THEN response.operation
                           ELSE response.payment
               IN  [raw |-> cell, normalized |-> cell, header |-> f]]} :
          response' = [response EXCEPT
                          !.handler = "resolve_operation",
                          !.status_code = 200] @@
                      [resolved |-> ResolveOperation(row_payload,
                                                     response.remap)]
    /\ PipelineUnchanged
    /\ OtherTablesUnchanged

NextOperation == resolve_operation

SpecOperation == InitOperation /\ [][NextOperation]_vars

(***************************************************************************)
(* Properties.                                                             *)
(***************************************************************************)
LastValidate ==
    response.handler = "validate_upload" /\ response.status_code = 200

LastImport ==
    response.handler = "import_upload" /\ response.status_code = 200

LastReport == LastValidate \/ LastImport

\* issues of a report about one file row (row numbers start at 2)
IssuesOf(issues, row_index) ==
    SelectSeq(issues, LAMBDA i : i.row = row_index)

RowHasError(report, row_index) == IssuesOf(report.errors, row_index) # <<>>

RowSkipped(report, row_index) ==
    \E k \in 1..Len(report.warnings) :
        /\ report.warnings[k].row = row_index
        /\ report.warnings[k].message = "operation_skipped"

RowIndexes(entries) == {entries[k].row_index : k \in 1..Len(entries)}

FileRowIndexes == {i + 1 : i \in 1..Len(upload.file.rows)}

\* the rows the last import added to the quarantine table
NewQuarantine ==
    SubSeq(upload_quarantine_rows,
           Len(upload_quarantine_rows) - Len(response.quarantine_rows) + 1,
           Len(upload_quarantine_rows))

\* the facts the last import added
NewFacts ==
    SubSeq(fact_transactions,
           Len(fact_transactions) - response.imported + 1,
           Len(fact_transactions))

\* the cell of file row i (1-based) under the header mapped to `field`
CellOf(i, field) ==
    get_row_value(upload.file.rows[i], upload.file.headers,
                  build_field_mapping(column_mapping.mapping_json, field))

\* C1: an import splits the rows of the file in two: the rows with at least
\* one error or the skip mark go to the quarantine table, each once, with
\* their issues and payload; all the other rows are the ready rows; the
\* import ends with status imported whatever the rows are; and under
\* keep_all_rows every ready row is one fact, so that facts plus quarantined
\* rows are total_rows.
C1_ImportPartition ==
    LastImport =>
        LET report == response.report
            Bad == {r \in FileRowIndexes :
                       RowHasError(report, r) \/ RowSkipped(report, r)}
            quarantine_rows == response.quarantine_rows
            ready_rows == response.ready_rows
        IN  /\ RowIndexes(quarantine_rows) = Bad
            /\ Len(quarantine_rows) = Cardinality(Bad)
            /\ RowIndexes(ready_rows) = FileRowIndexes \ Bad
            /\ Len(ready_rows) = Cardinality(FileRowIndexes \ Bad)
            /\ Len(upload_quarantine_rows) >= Len(quarantine_rows)
            /\ \A k \in 1..Len(quarantine_rows) :
                  LET r == quarantine_rows[k].row_index
                      q == NewQuarantine[k]
                  IN  /\ q.row_number = r
                      /\ SeqToSet(q.issues_json)
                           = SeqToSet(IssuesOf(report.errors, r))
                             \cup SeqToSet(IssuesOf(report.warnings, r))
                      /\ q.payload_json
                           = RowPayload(upload.type, upload.file.rows[r - 1],
                                        upload.file.headers,
                                        column_mapping.mapping_json,
                                        column_mapping.normalization_json)
            /\ upload.status = "imported"
            /\ report.stats.total_rows = Len(upload.file.rows)
            /\ response.dedup_policy = "keep_all_rows" =>
                  /\ response.imported = Len(ready_rows)
                  /\ response.imported + Len(quarantine_rows)
                       = report.stats.total_rows
                  /\ Len(fact_transactions) + Len(fact_marketing_spend)
                       >= response.imported

\* an import under keep_all_rows that quarantined a row skipped by policy
\* and made a fact of another row
C1_Witness ==
    /\ LastImport
    /\ response.dedup_policy = "keep_all_rows"
    /\ response.imported > 0
    /\ fact_transactions # <<>>
    /\ \E k \in 1..Len(response.quarantine_rows) :
          ~RowHasError(response.report, response.quarantine_rows[k].row_index)

\* C2: validate stores validated exactly when the report has no error and
\* failed otherwise; skipped rows and warnings do not make it failed.
C2_ValidateStatus ==
    LastValidate =>
        /\ upload.status \in {"validated", "failed"}
        /\ upload.status = "validated" <=> Len(response.report.errors) = 0
        /\ upload.status = "failed" <=> response.report.stats.error_count > 0

\* a validation with a skipped row and warnings that ended validated
C2_Witness ==
    /\ LastValidate
    /\ upload.status = "validated"
    /\ response.report.stats.skipped_rows > 0
    /\ response.report.stats.warning_count > 0

ImportStep ==
    /\ response'.handler = "import_upload"
    /\ calls'.imports = calls.imports + 1

\* C3: an import call on an upload with a saved mapping runs whatever the
\* status is: it computes the quality report again, appends facts and
\* quarantine rows to what the tables hold, and leaves the status imported.
C3_ImportFromAnyStatus ==
    [][(response'.handler = "import_upload" /\ column_mapping.saved) =>
          /\ ImportStep
          /\ response'.status_code = 200
          /\ response'.status_before = upload.status
          /\ upload'.status = "imported"
          /\ response'.report
               = _build_quality_report(upload.type, upload.file,
                                       column_mapping).report
          /\ Len(fact_transactions') + Len(fact_marketing_spend')
               = Len(fact_transactions) + Len(fact_marketing_spend)
                 + response'.imported
          /\ SubSeq(fact_transactions', 1, Len(fact_transactions))
               = fact_transactions
          /\ SubSeq(fact_marketing_spend', 1, Len(fact_marketing_spend))
               = fact_marketing_spend
          /\ Len(upload_quarantine_rows')
               = Len(upload_quarantine_rows) + Len(response'.quarantine_rows)
          /\ SubSeq(upload_quarantine_rows', 1, Len(upload_quarantine_rows))
               = upload_quarantine_rows]_vars

\* an import that found the upload failed, made facts and left it imported
C3_Witness ==
    /\ LastImport
    /\ response.status_before = "failed"
    /\ response.imported > 0
    /\ upload.status = "imported"

\* C4 as the spec states it: the status changes only from uploaded to
\* validated, from validated to imported, or to failed.
C4_OnlyForward ==
    [][upload'.status # upload.status =>
          \/ upload.status = "none" /\ upload'.status = "uploaded"
          \/ upload.status = "uploaded" /\ upload'.status = "validated"
          \/ upload.status = "validated" /\ upload'.status = "imported"
          \/ upload'.status = "failed"]_vars

\* C4, amended: the status starts at uploaded and never returns to it; a
\* validation sets it to validated or failed, from any status; an import
\* sets it to imported, from any status; nothing else changes it.
C4_StatusSteps ==
    [][/\ upload'.status # upload.status =>
             \/ /\ upload.status = "none"
                /\ upload'.status = "uploaded"
                /\ response'.handler = "create_upload"
             \/ /\ upload.status \in Statuses
                /\ response'.handler = "validate_upload"
                /\ upload'.status \in {"validated", "failed"}
             \/ /\ upload.status \in Statuses
                /\ response'.handler = "import_upload"
                /\ upload'.status = "imported"
       /\ (response'.handler = "validate_upload" /\ response'.status_code = 200)
             => upload'.status
                  = (IF response'.report.errors = <<>> THEN "validated"
                     ELSE "failed")
       /\ (response'.handler = "import_upload" /\ response'.status_code = 200)
             => upload'.status = "imported"]_vars

\* a validation that took an imported upload back to failed
C4_Witness ==
    /\ LastValidate
    /\ response.status_before = "imported"
    /\ upload.status = "failed"

\* C5: every fact has a non-negative amount and the operation type sale or
\* refund.
C5_FactsWellFormed ==
    \A n \in 1..Len(fact_transactions) :
        /\ fact_transactions[n].amount >= 0
        /\ fact_transactions[n].operation_type \in {SALE, REFUND}

\* a refund fact made of the row with amount -10
C5_Witness ==
    \E n \in 1..Len(fact_transactions) :
        /\ fact_transactions[n].amount = 10 * Scale
        /\ fact_transactions[n].operation_type = REFUND
        /\ fact_transactions[n].transaction_id = TX_1

\* amount cells of the files: negative, and missing, zero or not a number
NegativeCells == {A_NEG}
BadAmountCells == {EMPTY, A_ZERO, A_TXT}

\* the fact of ready row k of the last import, under keep_all_rows
FactOfReady(k) ==
    fact_transactions[Len(fact_transactions) - Len(response.ready_rows) + k]

\* C6 as the spec states it: a row with a negative amount and no error is
\* imported, with the absolute value as amount.
C6_NegativeImported ==
    (LastImport /\ upload.type = "transactions") =>
        \A i \in 1..Len(upload.file.rows) :
            (CellOf(i, "amount") \in NegativeCells
             /\ ~RowHasError(response.report, i + 1)) =>
                \E n \in 1..Len(NewFacts) :
                    /\ NewFacts[n].amount = 10 * Scale
                    /\ NewFacts[n].date
                         = parse_date(CellOf(i, "paid_at")).v

\* C6, amended: a negative amount gives a warning on the amount and no error
\* on it; a row with it that has no error and is not skipped is a ready row
\* with the absolute value, and under keep_all_rows a fact with that amount;
\* an error on the amount is given exactly for a missing, zero or
\* unparseable amount.
C6_NegativeAmount ==
    (LastReport /\ upload.type = "transactions") =>
        \A i \in 1..Len(upload.file.rows) :
            LET report == response.report
                AmountIssues(issues) ==
                    SelectSeq(IssuesOf(issues, i + 1),
                              LAMBDA x : x.field = "amount"
                                         /\ x.message # "required")
            IN  /\ CellOf(i, "amount") \in NegativeCells =>
                      /\ Len(AmountIssues(report.warnings)) = 1
                      /\ AmountIssues(report.errors) = <<>>
                      /\ (LastImport /\ ~RowHasError(report, i + 1)
                          /\ ~RowSkipped(report, i + 1)) =>
                            \E k \in 1..Len(response.ready_rows) :
                                /\ response.ready_rows[k].row_index = i + 1
                                /\ ParsedGet(response.ready_rows[k].parsed,
                                             "amount") = 10 * Scale
                                /\ response.dedup_policy = "keep_all_rows"
                                     => FactOfReady(k).amount = 10 * Scale
                /\ AmountIssues(report.errors) # <<>>
                     <=> CellOf(i, "amount") \in BadAmountCells

\* an import that made a fact of amount 10 out of the cell -10
C6_Witness ==
    /\ LastImport
    /\ upload.type = "transactions"
    /\ response.dedup_policy = "keep_all_rows"
    /\ \E k \in 1..Len(response.ready_rows) :
          /\ CellOf(response.ready_rows[k].row_index - 1, "amount")
               \in NegativeCells
          /\ FactOfReady(k).amount = 10 * Scale

\* the column of the operation type, 0 when the file has no such header
OperationColumn ==
    LET header == build_field_mapping(column_mapping.mapping_json,
                                      "operation_type")
        cols == {c \in 1..Len(upload.file.headers) :
                    upload.file.headers[c] = header}
    IN  IF cols = {} THEN 0 ELSE CHOOSE c \in cols : \A d \in cols : c >= d

\* the report of the file with the operation cell of row i set to "sale"
ReportWithSale(i) ==
    _build_quality_report(
        upload.type,
        [upload.file EXCEPT !.rows[i][OperationColumn] = SALE],
        column_mapping).report

\* file rows whose operation type is not resolved and that have no error
\* once the operation cell reads "sale"
UnresolvedOnly ==
    {i \in 1..Len(upload.file.rows) :
        /\ OperationColumn \in 1..Len(upload.file.rows[i])
        /\ ResolveOperation(
               RowPayload(upload.type, upload.file.rows[i],
                          upload.file.headers, column_mapping.mapping_json,
                          column_mapping.normalization_json),
               extract_operation_type_mapping(column_mapping.mapping_json))
             = <<>>
        /\ ~RowHasError(ReportWithSale(i), i + 1)}

\* C7: a row whose operation type is not resolved and that is valid
\* otherwise: under the policy ignore it adds one warning and no error, is
\* counted in skipped_rows and an import quarantines it and makes no fact of
\* it; under the policy error it adds one error and valid_rows is one less.
C7_UnknownOperation ==
    (LastReport /\ upload.type = "transactions") =>
        \A i \in UnresolvedOnly :
            LET report == response.report
                other == ReportWithSale(i)
                policy == column_mapping.mapping_json.unknown_operation_policy
            IN  /\ policy \in {"ignore", "error"}
                /\ report.stats.valid_rows = other.stats.valid_rows - 1
                /\ policy = "ignore" =>
                      /\ Len(IssuesOf(report.warnings, i + 1))
                           = Len(IssuesOf(other.warnings, i + 1)) + 1
                      /\ report.stats.warning_count
                           = other.stats.warning_count + 1
                      /\ IssuesOf(report.errors, i + 1) = <<>>
                      /\ report.stats.error_count = other.stats.error_count
                      /\ report.stats.skipped_rows
                           = other.stats.skipped_rows + 1
                      /\ LastImport =>
                            /\ i + 1 \in RowIndexes(response.quarantine_rows)
                            /\ i + 1 \notin RowIndexes(response.ready_rows)
                            /\ \E k \in 1..Len(NewQuarantine) :
                                  NewQuarantine[k].row_number = i + 1
                            /\ response.imported
                                 <= Len(upload.file.rows)
                                    - Len(response.quarantine_rows)
                /\ policy = "error" =>
                      /\ Len(IssuesOf(report.errors, i + 1)) = 1
                      /\ report.stats.error_count
                           = other.stats.error_count + 1
                      /\ report.stats.warning_count
                           = other.stats.warning_count
                      /\ report.stats.skipped_rows = other.stats.skipped_rows

\* an import under the policy ignore that quarantined such a row
C7_Witness ==
    /\ LastImport
    /\ upload.type = "transactions"
    /\ column_mapping.mapping_json.unknown_operation_policy = "ignore"
    /\ UnresolvedOnly # {}
    /\ response.report.stats.skipped_rows > 0

\* a dimension call that applied an alias
AliasApplied ==
    /\ response'.handler
         \in {"create_product", "update_product", "add_product_alias"}
    /\ response'.status_code \in {200, 201}
    /\ calls'.dims = calls.dims + 1

\* C8: when an alias is applied, every fact whose normalized name was the
\* alias text has the id of the target and the target's canonical name.
C8_AliasBackfill ==
    [][AliasApplied =>
          LET kind == response'.kind
              target == response'.dim_id
          IN  /\ Len(fact_transactions') = Len(fact_transactions)
              /\ \A n \in 1..Len(fact_transactions) :
                    FactNorm(fact_transactions[n], kind) = response'.alias =>
                       /\ FactDimId(fact_transactions'[n], kind) = target
                       /\ FactNorm(fact_transactions'[n], kind)
                            = dims'[kind][target].canonical_name]_vars

\* an alias that differs from the canonical name was added and a fact
\* carries the id and the canonical name of its target
C8_Witness ==
    /\ response.handler = "add_product_alias"
    /\ response.status_code = 201
    /\ dims[response.kind][response.dim_id].canonical_name # response.alias
    /\ \E n \in 1..Len(fact_transactions) :
          /\ FactDimId(fact_transactions[n], response.kind) = response.dim_id
          /\ FactNorm(fact_transactions[n], response.kind)
               = dims[response.kind][response.dim_id].canonical_name
          /\ (IF response.kind = "product"
              THEN fact_transactions[n].product_name_raw
              ELSE fact_transactions[n].manager_raw) = response.alias

\* C9: an alias text has at most one alias row; the call that applies it
\* leaves its row at the entity the call names and the rows of other texts
\* as they were; nothing else writes alias rows.
C9_AliasUpsert ==
    [][/\ \A kind \in DimKinds :
             \A a, b \in 1..Len(aliases'[kind]) :
                 aliases'[kind][a].alias = aliases'[kind][b].alias => a = b
       /\ AliasApplied =>
             LET kind == response'.kind
                 hits == {a \in 1..Len(aliases'[kind]) :
                             aliases'[kind][a].alias = response'.alias}
             IN  /\ Cardinality(hits) = 1
                 /\ \A a \in hits :
                       aliases'[kind][a].dim_id = response'.dim_id
                 /\ \A a \in 1..Len(aliases[kind]) :
                       aliases[kind][a].alias # response'.alias
                          => aliases'[kind][a] = aliases[kind][a]
                 /\ \A other \in DimKinds \ {kind} :
                       aliases'[other] = aliases[other]
       /\ ~AliasApplied => aliases' = aliases]_vars

\* the alias row of the first entity's name points at the second entity
C9_Witness ==
    \E kind \in DimKinds :
        /\ Len(dims[kind]) = 2
        /\ \E a \in 1..Len(aliases[kind]) :
              /\ aliases[kind][a].alias = dims[kind][1].canonical_name
              /\ aliases[kind][a].dim_id = 2

\* the dedup key as the spec words it
ClaimedDedupKey(row) ==
    IF row.transaction_id # <<>> THEN row.transaction_id
    ELSE IF row.order_id # <<>> THEN row.order_id
    ELSE IdText(row.id)

\* C10 as the spec states it: with the policy aggregate_by_transaction_id
\* the rows the dashboard reads are one per dedup key and operation type,
\* with the summed amount and fees of the facts of that key and type.
C10_AggregatedView ==
    project_settings.dedup_policy = "aggregate_by_transaction_id" =>
        LET effective == _transaction_source(project_settings.dedup_policy)
            Same(row, fact) ==
                /\ ClaimedDedupKey(row) = ClaimedDedupKey(fact)
                /\ row.operation_type = fact.operation_type
        IN  \A n \in 1..Len(fact_transactions) :
                LET fact == fact_transactions[n]
                    group == {m \in 1..Len(fact_transactions) :
                                 Same(fact_transactions[m], fact)}
                    rows == {k \in 1..Len(effective) :
                                Same(effective[k], fact)}
                IN  /\ Cardinality(rows) = 1
                    /\ \A k \in rows :
                          /\ effective[k].amount
                               = SumOver(fact_transactions, group, "amount")
                          /\ effective[k].fee_total
                               = SumOver(fact_transactions, group, "fee_total")

\* C11 as the spec states it: with the policy last_row_wins the rows the
\* dashboard reads hold, for every dedup key (transaction_id, else order_id,
\* else the id as text), exactly one row, the most recently created fact of
\* that key; with keep_all_rows they are all the facts.
C11_LastRowWinsView ==
    LET effective == _transaction_source(project_settings.dedup_policy)
        facts == fact_transactions
    IN  /\ project_settings.dedup_policy = "keep_all_rows"
              => effective = facts
        /\ project_settings.dedup_policy = "last_row_wins" =>
              \A n \in 1..Len(facts) :
                  LET group == {m \in 1..Len(facts) :
                                   ClaimedDedupKey(facts[m])
                                       = ClaimedDedupKey(facts[n])}
                      rows == {k \in 1..Len(effective) :
                                  ClaimedDedupKey(effective[k])
                                      = ClaimedDedupKey(facts[n])}
                      last == CHOOSE m \in group :
                                  \A o \in group :
                                      facts[o].created_at <= facts[m].created_at
                  IN  /\ Cardinality(rows) = 1
                      /\ \A k \in rows : effective[k] = facts[last]

\* periods of the metric and dashboard requests: January 2024, the one day
\* 2 January 2024, and the seven days up to 1 and up to 2 January 2024
Periods ==
    { <<20240101, 20240131>>, <<20240102, 20240102>>,
      <<20231226, 20240101>>, <<20231227, 20240102>> }

\* C12 as the spec states it: for every dedup policy and period,
\* compute_metric returns for gross_sales, refunds and orders the value of
\* the dashboard's card, both reading the same dedup-aware effective rows.
C12_SameEffectiveRows ==
    \A period \in Periods :
        \A metric_key \in {"gross_sales", "refunds", "orders"} :
            compute_metric(fact_transactions, _metric_cache, metric_key,
                           period[1], period[2]).value
                = get_dashboard_data(period[1], period[2])[metric_key]

\* the last n rows of a table
LastRows(table, n) == SubSeq(table, Len(table) - n + 1, Len(table))

\* a fact without the columns the insert assigns (id, created_at)
FactBody(fact) == [fact EXCEPT !.id = 0, !.created_at = 0]

\* this step is an import under keep_all_rows, and so was the call before it
KeepAllImport == ImportStep /\ response'.dedup_policy = "keep_all_rows"
Reimport ==
    /\ KeepAllImport
    /\ response.handler = "import_upload" /\ response.status_code = 200
    /\ response.dedup_policy = "keep_all_rows"

\* C13: under keep_all_rows every import appends one fact per ready row and
\* one quarantine row per excluded row to what the tables hold, and an
\* import that follows an import of the same file and mapping appends the
\* same facts (up to id and creation time) and the same quarantine rows
\* again.
C13_ReimportDuplicates ==
    [][KeepAllImport =>
         LET ready == Len(response'.ready_rows)
             excluded == Len(response'.quarantine_rows)
         IN  /\ response'.imported = ready
             /\ upload_quarantine_rows' =
                    upload_quarantine_rows
                        \o LastRows(upload_quarantine_rows', excluded)
             /\ IF upload.type = "transactions"
                THEN fact_transactions' =
                        fact_transactions \o LastRows(fact_transactions', ready)
                ELSE fact_marketing_spend' =
                        fact_marketing_spend
                            \o LastRows(fact_marketing_spend', ready)
             /\ Reimport =>
                   /\ response.imported = ready
                   /\ LastRows(upload_quarantine_rows', excluded)
                        = LastRows(upload_quarantine_rows, excluded)
                   /\ IF upload.type = "transactions"
                      THEN \A n \in 1..ready :
                              FactBody(LastRows(fact_transactions', ready)[n])
                                = FactBody(LastRows(fact_transactions, ready)[n])
                      ELSE LastRows(fact_marketing_spend', ready)
                             = LastRows(fact_marketing_spend, ready)
      ]_vars

\* two imports under keep_all_rows of a file with a ready row and an excluded
\* row: two facts and two quarantine rows
C13_Witness ==
    /\ calls.imports = 2 /\ calls.settings = 0
    /\ response.handler = "import_upload" /\ response.status_code = 200
    /\ response.imported = 1
    /\ Len(response.quarantine_rows) = 1
    /\ Len(fact_transactions) = 2
    /\ FactBody(fact_transactions[1]) = FactBody(fact_transactions[2])
    /\ Len(upload_quarantine_rows) = 2
    /\ upload_quarantine_rows[1] = upload_quarantine_rows[2]

\* C14 as the spec states it: for the facts the project holds and every
\* period, compute_metric returns for gross_sales the sum of the sale
\* amounts of the period, for refunds the sum of the refund amounts, for
\* net_revenue their difference, for refund_rate their quotient (0 without
\* sales) and for orders the number of distinct order keys of the sale rows.
C14_MetricIdentities ==
    \A period \in Periods :
        LET facts == fact_transactions
            Metric(metric_key) ==
                compute_metric(facts, _metric_cache, metric_key,
                               period[1], period[2]).value
            rows == {n \in 1..Len(facts) :
                        facts[n].date >= period[1] /\ facts[n].date <= period[2]}
            sales == {n \in rows : facts[n].operation_type = SALE}
            refunded == {n \in rows : facts[n].operation_type = REFUND}
            gross_sales == SumOver(facts, sales, "amount")
            refunds == SumOver(facts, refunded, "amount")
            Key(n) == IF facts[n].transaction_id # <<>>
                      THEN facts[n].transaction_id ELSE facts[n].order_id
        IN  /\ Metric("gross_sales") = gross_sales
            /\ Metric("refunds") = refunds
            /\ Metric("net_revenue") = gross_sales - refunds
            /\ Metric("refund_rate") =
                  (IF gross_sales = 0 THEN 0
                   ELSE (refunds * RatioScale) \div gross_sales)
            /\ Metric("orders") = Cardinality({Key(n) : n \in sales} \ {<<>>})

\* C15: for a non-empty requirement list the status is available exactly
\* when every requirement is present, unavailable when none is present and
\* no absent order_id requirement is covered by a present transaction_id,
\* and partial otherwise; an absent order_id requirement is among the
\* missing fields whenever the status is not available.
C15_Availability ==
    (response.handler = "evaluate_metric_availability"
     /\ response.requirements # <<>>) =>
        LET requirements == response.requirements
            Present(key) == PresenceGet(response.presence, key)
            all == \A i \in 1..Len(requirements) : Present(requirements[i])
            none == \A i \in 1..Len(requirements) : ~Present(requirements[i])
            order_absent == /\ \E i \in 1..Len(requirements) :
                                  requirements[i] = "order_id"
                            /\ ~Present("order_id")
            status == response.result.status
            missing == SeqToSet(response.result.missing_fields)
        IN  /\ status = "available" <=> all
            /\ status = "unavailable"
                  <=> (none /\ ~(order_absent /\ Present("transaction_id")))
            /\ status \in {"available", "unavailable", "partial"}
            /\ (order_absent /\ status # "available") => "order_id" \in missing
            /\ status = "available" => missing = {}

\* order_id is required and absent, transaction_id is present, nothing
\* required is present: partial, with order_id missing
C15_Witness ==
    /\ response.handler = "evaluate_metric_availability"
    /\ response.requirements = <<"order_id", "amount">>
    /\ PresenceGet(response.presence, "transaction_id")
    /\ ~PresenceGet(response.presence, "order_id")
    /\ ~PresenceGet(response.presence, "amount")
    /\ response.result = [status |-> "partial",
                          missing_fields |-> <<"amount", "order_id">>]

\* C16 as the spec states it: the grouping level of a dashboard answer is
\* the lowest level N of 1..5 whose column group_N no filter of the request
\* constrains (a filter with a blank value counted as no filter), and the
\* breakdowns are grouped by that column.
C16_LowestUnconstrained ==
    response.handler = "get_dashboard_data" =>
        LET unconstrained ==
                {level \in 1..5 :
                    ~FilterSet(_normalize_filters(response.filters),
                               GroupKey(level))}
        IN  unconstrained # {} =>
                /\ response.breakdowns.level = MinOf(unconstrained)
                /\ response.breakdowns.group_column
                     = GroupKey(MinOf(unconstrained))

\* the upload is the upload_id of some dashboard source row
Referenced(upload_id) ==
    \E k \in DOMAIN dashboard_sources : dashboard_sources[k] = upload_id

\* no dashboard source points at a deleted upload
SourcesLive ==
    \A k \in DOMAIN dashboard_sources :
        dashboard_sources[k] # 0 => ~uploads[dashboard_sources[k]].is_deleted

\* C17: before and after every call no upload that is a dashboard source is
\* deleted; delete_upload on a source answers 409 and deletes nothing;
\* cleanup_uploads leaves every source as it is; set_dashboard_source on a
\* deleted upload answers 404 and changes no source; delete_upload by the
\* owner on an upload that is not deleted and not (or no longer) a source
\* deletes it.
C17_SourceGuard ==
    [][/\ SourcesLive /\ SourcesLive'
       /\ \A id \in 1..Len(uploads) : \A current_user \in UserIds :
             delete_upload(id, current_user) =>
                /\ Referenced(id) =>
                      (response'.status_code \in {404, 409}
                       /\ uploads' = uploads)
                /\ (Referenced(id)
                    /\ Projects[uploads[id].project_id].owner_id
                          = current_user) =>
                      response'.status_code = 409
                /\ (~Referenced(id) /\ ~uploads[id].is_deleted
                    /\ Projects[uploads[id].project_id].owner_id
                          = current_user) =>
                      (response'.status_code = 204
                       /\ uploads'[id].is_deleted)
       /\ response'.handler = "cleanup_uploads" =>
             \A id \in 1..Len(uploads) :
                 Referenced(id) => uploads'[id] = uploads[id]
       /\ \A project_id \in RequestProjectIds : \A current_user \in UserIds :
             \A t \in UploadTypes : \A id \in 1..Len(uploads) :
                (set_dashboard_source(project_id, current_user, t, id)
                 /\ uploads[id].is_deleted) =>
                   (response'.status_code = 404
                    /\ dashboard_sources' = dashboard_sources)
      ]_vars

\* delete_upload has just been refused for an upload that is a dashboard
\* source, in a state where another upload has been deleted
C17_Witness ==
    /\ response.handler = "delete_upload"
    /\ response.status_code = 409
    /\ \E id \in 1..Len(uploads) :
          Referenced(id) /\ ~uploads[id].is_deleted
    /\ \E id \in 1..Len(uploads) : uploads[id].is_deleted

\* the stored mapping, if there is one, passes the checks of save_mapping
StoredMappingValid(mapping) ==
    mapping.saved =>
        /\ MissingRequired(upload.type, mapping.mapping_json) = <<>>
        /\ mapping.mapping_json.unknown_operation_policy \in {"error", "ignore"}
        /\ \A k \in DOMAIN mapping.mapping_json.value_mapping.operation_type :
              mapping.mapping_json.value_mapping.operation_type[k]
                \in {SALE, REFUND}

\* C18: a save_mapping call answered 400 or 422 leaves the stored mapping of
\* the upload exactly as it was, a call answered 201 stores the mapping, and
\* before and after every call the stored mapping, if there is one, names
\* every required field of the upload's type, has a policy of error or
\* ignore and remaps operation types to sale or refund only.
C18_RejectBeforeMutation ==
    [][/\ StoredMappingValid(column_mapping)
       /\ upload # NoUpload => StoredMappingValid(column_mapping')
       /\ response'.handler = "save_mapping" =>
             /\ response'.status_code \in {201, 400, 422}
             /\ response'.status_code \in {400, 422} =>
                   column_mapping' = column_mapping
             /\ response'.status_code = 201 => column_mapping'.saved
      ]_vars

\* a save_mapping call has been refused with 422 while a mapping saved by an
\* earlier call is still stored
C18_Witness ==
    /\ response.handler = "save_mapping"
    /\ response.status_code = 422
    /\ column_mapping # NoMapping
    /\ column_mapping.saved

\* the first table is a prefix of the second
IsPrefix(before, after) ==
    /\ Len(before) <= Len(after)
    /\ \A i \in 1..Len(before) : after[i] = before[i]

\* C19: no call removes or rewrites a recorded event; a send_alert_test call
\* that ends with no chat bound (404) or with a delivery failure (502) has
\* recorded the test event of its rule; a run_daily_alerts call whose
\* delivery raises has recorded the event of the rule it was delivering; the
\* events a completed run returns are recorded; and list_alert_events
\* returns every recorded event of the rule, latest first.
C19_EventBeforeDelivery ==
    [][/\ IsPrefix(alert_events, alert_events')
       /\ (response'.handler = "send_alert_test"
           /\ response'.detail \in {"telegram", "gateway"}) =>
             alert_events' =
                Append(alert_events,
                       [rule_id |-> response'.rule_id, type |-> "test"])
       /\ (response'.handler = "run_daily_alerts"
           /\ response'.raised = "send_telegram_message") =>
             /\ Len(alert_events') > Len(alert_events)
             /\ alert_events'[Len(alert_events')] =
                   [rule_id |-> response'.rule_id, type |-> "fired"]
       /\ response'.handler = "run_daily_alerts" =>
             \A i \in 1..Len(response'.events) :
                 /\ response'.events[i] \in
                       (Len(alert_events) + 1)..Len(alert_events')
                 /\ alert_events'[response'.events[i]].type = "fired"
       /\ (response'.handler = "list_alert_events"
           /\ response'.status_code = 200) =>
             /\ {response'.events[i] : i \in 1..Len(response'.events)} =
                   {n \in 1..Len(alert_events') :
                       alert_events'[n].rule_id = response'.rule_id}
             /\ \A i \in 1..(Len(response'.events) - 1) :
                   response'.events[i] > response'.events[i + 1]
      ]_vars

\* send_alert_test has answered 502 after a delivery failure, and the test
\* event of its rule is the latest recorded event
C19_Witness ==
    /\ response.handler = "send_alert_test"
    /\ response.status_code = 502
    /\ alert_events # <<>>
    /\ alert_events[Len(alert_events)] =
          [rule_id |-> response.rule_id, type |-> "test"]

\* the user owns the project
Owns(current_user, project_id) ==
    /\ project_id \in 1..Len(Projects)
    /\ Projects[project_id].owner_id = current_user

\* a request of the user on the project
ProjectScoped(project_id, current_user) ==
    \/ \E t \in UploadTypes : \E id \in {0} \cup RequestUploadIds :
         set_dashboard_source(project_id, current_user, t, id)
    \/ \E aged \in SUBSET (1..Len(uploads)) :
         cleanup_uploads(project_id, current_user, aged)
    \/ create_alert_rule(project_id, current_user, TRUE)
    \/ upsert_telegram_binding(project_id, current_user)
    \/ delete_telegram_binding(project_id, current_user)
    \/ \E rule_id \in RequestRuleIds : \E gateway \in Gateways :
         send_alert_test(project_id, rule_id, current_user, gateway)
    \/ \E rule_id \in RequestRuleIds :
         list_alert_events(project_id, rule_id, current_user)

\* a request of the user on the upload
UploadScoped(upload_id, current_user) ==
    \/ delete_upload(upload_id, current_user)
    \/ preview_upload(upload_id, current_user)

\* a request of the user on the rule, through the project
RuleScoped(project_id, rule_id, current_user) ==
    \/ \E gateway \in Gateways :
         send_alert_test(project_id, rule_id, current_user, gateway)
    \/ list_alert_events(project_id, rule_id, current_user)

\* no table has changed
TablesUnchanged ==
    UNCHANGED << upload, column_mapping, project_settings, fact_transactions,
                 fact_marketing_spend, upload_quarantine_rows, dims, aliases,
                 insights, _metric_cache, calls, uploads, dashboard_sources,
                 alert_rules, alert_events, telegram_bindings, sessions >>

\* the rows of the projects the user does not own are what they were
ForeignRowsUnchanged(current_user) ==
    \A project_id \in 1..Len(Projects) :
        ~Owns(current_user, project_id) =>
            /\ \A id \in 1..Len(uploads) :
                  uploads[id].project_id = project_id =>
                      uploads'[id] = uploads[id]
            /\ \A id \in 1..Len(uploads') :
                  uploads'[id].project_id = project_id =>
                      id \in 1..Len(uploads)
            /\ \A k \in DOMAIN dashboard_sources \cup DOMAIN dashboard_sources' :
                  k[1] = project_id =>
                      /\ k \in DOMAIN dashboard_sources
                      /\ k \in DOMAIN dashboard_sources'
                      /\ dashboard_sources'[k] = dashboard_sources[k]
            /\ {id \in 1..Len(alert_rules') :
                   alert_rules'[id].project_id = project_id} =
               {id \in 1..Len(alert_rules) :
                   alert_rules[id].project_id = project_id}
            /\ {id \in 1..Len(alert_events') :
                   alert_rules'[alert_events'[id].rule_id].project_id
                      = project_id} =
               {id \in 1..Len(alert_events) :
                   alert_rules[alert_events[id].rule_id].project_id
                      = project_id}
            /\ (project_id \in telegram_bindings') =
                  (project_id \in telegram_bindings)

C21_PolicyEnum ==
    project_settings.dedup_policy
        \in {"keep_all_rows", "last_row_wins", "aggregate_by_transaction_id"}

\* the file rows of the last report with at least one error
ErrorRows == {r \in FileRowIndexes : RowHasError(response.report, r)}

\* the file rows of the last report marked skipped and free of errors
SkippedRows ==
    {r \in FileRowIndexes :
        RowSkipped(response.report, r) /\ ~RowHasError(response.report, r)}

\* C22: in the report of every validate and import call, total_rows is the
\* number of file rows, skipped_rows the number of rows marked skipped that
\* have no error, valid_rows = total_rows - (rows with an error) -
\* skipped_rows and is never negative, and error_count and warning_count are
\* the numbers of issues, each issue being about a row of the file.
C22_ReportStats ==
    LastReport =>
        /\ response.report.stats.total_rows = Len(upload.file.rows)
        /\ response.report.stats.skipped_rows = Cardinality(SkippedRows)
        /\ response.report.stats.valid_rows =
              response.report.stats.total_rows - Cardinality(ErrorRows)
              - response.report.stats.skipped_rows
        /\ response.report.stats.valid_rows =
              Cardinality(FileRowIndexes \ (ErrorRows \cup SkippedRows))
        /\ response.report.stats.error_count = Len(response.report.errors)
        /\ response.report.stats.warning_count = Len(response.report.warnings)
        /\ \A k \in 1..Len(response.report.errors) :
              response.report.errors[k].row \in FileRowIndexes
        /\ \A k \in 1..Len(response.report.warnings) :
              response.report.warnings[k].row \in FileRowIndexes

\* a report of a two-row file in which one row has two errors and counts
\* once, and the other row is valid
C22_Witness ==
    /\ LastReport
    /\ \E r \in ErrorRows : Len(IssuesOf(response.report.errors, r)) >= 2
    /\ Cardinality(ErrorRows) = 1
    /\ response.report.stats.total_rows = 2
    /\ response.report.stats.valid_rows = 1
    /\ response.report.stats.error_count >= 2

\* C23: no call removes or changes an entry of the metric cache, and a
\* get_metric call for a key that is in the cache returns the cached value.
C23_CacheKept ==
    [][/\ \A k \in DOMAIN _metric_cache :
             k \in DOMAIN _metric_cache' /\ _metric_cache'[k] = _metric_cache[k]
       /\ (response'.handler = "get_metric"
           /\ <<response'.metric_key, response'.from_date, response'.to_date>>
                 \in DOMAIN _metric_cache) =>
             response'.value =
                _metric_cache[<<response'.metric_key, response'.from_date,
                                response'.to_date>>]
      ]_vars

\* get_metric returns a value that is no longer what the fact table gives,
\* after the dashboard was cleared or facts were imported in between
C23_Witness ==
    /\ response.handler = "get_metric"
    /\ response.value # BaseMetricValue(fact_transactions, response.metric_key,
                                         response.from_date, response.to_date)
    /\ response.value # 0
    /\ fact_transactions = <<>>

\* the Insight rows outside the latest 7-day period of the facts
OtherPeriodInsights(rows, facts) ==
    LET F(period_data) ==
            SelectSeq(rows,
                LAMBDA r : \/ ~period_data.some
                           \/ r.period_from # period_data.v.period_from
                           \/ r.period_to # period_data.v.period_to)
    IN  F(_latest_period(facts, 7))

C24_WitnessOtherPeriod ==
    /\ LastImport
    /\ Len(insights) = 2 * Len(INSIGHT_METRICS)

\* a metric evaluated over the facts, with nothing cached
Evaluated(facts, metric_key, from_date, to_date) ==
    compute_metric(facts, <<>>, metric_key, from_date, to_date).value

\* the Insight rows of a metric and period
InsightsOf(metric_key, period) ==
    SelectSeq(insights,
        LAMBDA r : /\ r.metric_key = metric_key
                   /\ r.period_from = period.period_from
                   /\ r.period_to = period.period_to)

\* C25 as the spec states it: after each successful import the Insight of
\* each insight metric over the latest 7-day period holds, as current and
\* previous value, the metric evaluated over the facts present after that
\* import, also when an earlier import generated an insight for the period.
C25_InsightsCurrent ==
    (LastImport /\ fact_transactions # <<>>) =>
        LET period == _latest_period(fact_transactions, 7).v
        IN  \A n \in 1..Len(INSIGHT_METRICS) :
                LET rows == InsightsOf(INSIGHT_METRICS[n], period)
                IN  /\ Len(rows) = 1
                    /\ rows[1].current
                          = Evaluated(fact_transactions, INSIGHT_METRICS[n],
                                      period.period_from, period.period_to)
                    /\ rows[1].previous
                          = Evaluated(fact_transactions, INSIGHT_METRICS[n],
                                      period.previous_from, period.previous_to)

\* C25 for the first import of a process: the insights hold the metrics of
\* the facts present after it
C25_FirstImportCurrent ==
    calls.imports = 1 => C25_InsightsCurrent

\* C26: when the insight generation of an import raises, the Insight rows
\* stay as they were, the facts and quarantine rows of the import are
\* stored, the upload is imported and the answer is 200 with the count of
\* the stored facts.
C26_OnlyInsightsRolledBack ==
    [][\A raising \in InsightFailures \ {"none"} :
          (import_upload(raising) /\ column_mapping.saved) =>
              /\ insights' = insights
              /\ upload'.status = "imported"
              /\ response'.status_code = 200
              /\ Len(fact_transactions') + Len(fact_marketing_spend')
                    = Len(fact_transactions) + Len(fact_marketing_spend)
                         + response'.imported
              /\ IsPrefix(fact_transactions, fact_transactions')
              /\ IsPrefix(fact_marketing_spend, fact_marketing_spend')
              /\ upload_quarantine_rows'
                    = upload_quarantine_rows \o
                         [n \in 1..Len(response'.quarantine_rows) |->
                             QuarantineRecord(response'.quarantine_rows[n])]
      ]_vars

\* an import stored a fact and a quarantine row and answered 1, and its
\* insight generation failed at the commit: values were computed, no Insight
\* row exists
C26_Witness ==
    /\ LastImport
    /\ response.imported = 1
    /\ Len(fact_transactions) = 1
    /\ Len(upload_quarantine_rows) = 1
    /\ upload.status = "imported"
    /\ insights = <<>>
    /\ _metric_cache # <<>>

HasMarker(text, markers) == \E marker \in markers : Contains(text, marker)

\* refund if a refund marker occurs, else sale if a sale marker occurs
KeywordOperation(text) ==
    IF HasMarker(text, refund_markers) THEN REFUND
    ELSE IF HasMarker(text, sale_markers) THEN SALE
    ELSE <<>>

\* C27: the operation type of a row is (a) the remap entry of the
\* normalized operation text, else (b) that text when it is sale or refund,
\* else (c) what its keywords give, refund markers before sale markers, else
\* (d) what the keywords of the payment-method value give, else nothing.
C27_OperationOrder ==
    response.handler = "resolve_operation" =>
        LET text == Lower(Strip(response.operation))
            payment == IF response.payment = "unmapped" THEN <<>>
                       ELSE Lower(Strip(response.payment))
        IN  response.resolved =
                IF text # <<>> /\ text \in DOMAIN response.remap
                THEN response.remap[text]
                ELSE IF text \in {SALE, REFUND} THEN text
                ELSE IF KeywordOperation(text) # <<>>
                THEN KeywordOperation(text)
                ELSE KeywordOperation(payment)

\* an operation text with a sale marker and a refund marker, no remap entry
\* for it and a payment method with a sale marker: refund
C27_Witness ==
    /\ response.handler = "resolve_operation"
    /\ response.operation = OP_BOTH
    /\ Lower(OP_BOTH) \notin DOMAIN response.remap
    /\ response.payment = PAY_SALE
    /\ response.resolved = REFUND

FactAliasKey(fact, kind) ==
    LET field == IF kind = "product" THEN "product_name" ELSE "manager"
        raw == IF kind = "product" THEN fact.product_name_raw
               ELSE fact.manager_raw
    IN  normalize_value(raw,
            NormalizationOf(column_mapping.normalization_json,
                build_field_mapping(column_mapping.mapping_json, field)))

\* C29 as the spec implies it: when add_product_alias (add_manager_alias)
\* moves an alias text from entity A to entity B, every fact that was
\* linked to A and whose alias text is that text is linked to B afterwards.
C29_ReassignMovesFacts ==
    [][(/\ response'.handler = "add_product_alias"
        /\ response'.status_code = 201
        /\ calls'.dims = calls.dims + 1
        /\ resolve_alias(response'.kind, response'.alias)
              \notin {0, response'.dim_id}) =>
          \A n \in 1..Len(fact_transactions) :
              (/\ FactDimId(fact_transactions[n], response'.kind)
                    = resolve_alias(response'.kind, response'.alias)
               /\ FactAliasKey(fact_transactions[n], response'.kind)
                    = response'.alias) =>
                  FactDimId(fact_transactions'[n], response'.kind)
                     = response'.dim_id
      ]_vars

\* C29 for an alias text that is the canonical name of the entity it is
\* taken from: the facts follow the alias
C29_CanonicalAliasMoves ==
    [][(/\ response'.handler = "add_product_alias"
        /\ response'.status_code = 201
        /\ calls'.dims = calls.dims + 1
        /\ resolve_alias(response'.kind, response'.alias)
              \notin {0, response'.dim_id}
        /\ get_name(response'.kind,
                    resolve_alias(response'.kind, response'.alias))
              = response'.alias) =>
          \A n \in 1..Len(fact_transactions) :
              (/\ FactDimId(fact_transactions[n], response'.kind)
                    = resolve_alias(response'.kind, response'.alias)
               /\ FactAliasKey(fact_transactions[n], response'.kind)
                    = response'.alias) =>
                  FactDimId(fact_transactions'[n], response'.kind)
                     = response'.dim_id
      ]_vars

\* the place of a step in the order of the steps, 0 when it has not run
StepAt(step) ==
    IF \E i \in 1..Len(sessions.log) : sessions.log[i] = step
    THEN CHOOSE i \in 1..Len(sessions.log) : sessions.log[i] = step
    ELSE 0

\* an import and an alias call have both ended, the alias text had no row,
\* the import resolved its aliases before the alias row was committed and
\* committed its facts after the backfill had run
RaceLost ==
    /\ sessions.import.pc = "done"
    /\ sessions.alias.pc = "done"
    /\ sessions.alias.status_code = 201
    /\ sessions.alias.existing = 0
    /\ StepAt("import_upload_resolve") < StepAt("add_product_alias_commit")
    /\ StepAt("add_product_alias_backfill") < StepAt("import_upload_commit")

\* C30: after an import that resolved its aliases before the alias row was
\* committed and committed its facts after the backfill had run, the alias
\* row exists and every fact of that alias text has the text as normalized
\* name and no product (manager).
C30_RaceLeavesFactsUnlinked ==
    RaceLost =>
        /\ resolve_alias(sessions.alias.kind, sessions.alias.alias)
              = sessions.alias.dim_id
        /\ \A n \in 1..Len(fact_transactions) :
              FactAliasKey(fact_transactions[n], sessions.alias.kind)
                    = sessions.alias.alias =>
                 /\ FactDimId(fact_transactions[n], sessions.alias.kind) = 0
                 /\ FactNorm(fact_transactions[n], sessions.alias.kind)
                       = sessions.alias.alias

\* the alias call ran wholly between the two parts of the import, and a fact
\* carries the alias text and no product although the alias row exists
C30_Witness ==
    /\ RaceLost
    /\ sessions.log = << "import_upload_resolve", "add_product_alias_backfill",
                         "add_product_alias_commit", "import_upload_commit" >>
    /\ sessions.alias.kind = "product"
    /\ resolve_alias("product", sessions.alias.alias) # 0
    /\ \E n \in 1..Len(fact_transactions) :
          /\ fact_transactions[n].product_name_norm = sessions.alias.alias
          /\ fact_transactions[n].product_id = 0
====
